---- MODULE Spec2Model ----
(***************************************************************************)
(* A model of the record lifecycle code of the HMIS / SMIS modules:        *)
(*   - hospital.patient  (src/patient.py): create, sequence assignment,     *)
(*     duplicate-contact guard, age display;                                *)
(*   - hospital.icu.bed  (src/icu_bed.py): create and unlink guards;        *)
(*   - hmis.patient / school.student: the date_of_birth constraint;         *)
(*   - school.attendance / consolidated.attendance: the daily batch jobs;   *)
(*   - hmis.automated.tasks: the patient follow-up job;                     *)
(*   - server actions, appointments, prescriptions and sale orders;         *)
(*   - consolidated.school / consolidated.student, school promotion;        *)
(*   - LTA licences and UAF invoices, patient registration, access rights.  *)
(* Dates are ordinals: the number of days since January 1st of EpochYear.   *)
(* Each subsystem has its own specification; the variables of the other     *)
(* subsystems stay unchanged in it.                                         *)
(***************************************************************************)
EXTENDS Integers, Sequences, FiniteSets, TLC

VARIABLES
    today,        \* the current date (date.today() / fields.Date.today()), an ordinal
    ageDob,       \* _compute_age_display: record.date_of_birth (None or an ordinal)
    ageOut,       \* _compute_age_display: the value left in record.age
    patients,     \* hospital.patient: the stored records
    patientSeq,   \* ir.sequence with code 'hospital.patient'
    patientNextId,\* hospital.patient: the database id of the next record
    issued,       \* history: the numbers next_by_code('hospital.patient') handed out
    deleted,      \* history: some hospital.patient has been unlinked
    restartAt,    \* history: how many numbers had been handed out when a create
                  \* last found no patient stored
    pRes,         \* hospital.patient: the last call, its arguments and its outcome
    beds,         \* hospital.icu.bed: the stored records
    bedNextId,    \* hospital.icu.bed: the database id of the next record
    bRes,         \* hospital.icu.bed: the last call, its arguments and its outcome
    bBatch,       \* hospital.icu.bed: the names in the vals_list of the last call,
                  \* when it was a create
    dated,        \* hmis.patient and school.student: the stored records of each model
    datedNextId,  \* hmis.patient and school.student: the database id of the next record
    dRes,         \* hmis.patient and school.student: the last call and its outcome
    activeStudents,   \* school.student: the students whose status is 'active'
    attendance,       \* school.attendance: the number of records per (student, date, status)
    consAttendance,   \* consolidated.attendance: the same, for consolidated.student
    aRes,             \* the last attendance job and what it returned
    aFailing,         \* history: the students whose Attendance.create raised, as
                      \* given to the last run of auto_generate_daily_attendance
    appointments,     \* hmis.appointment: the stored records
    inactivePatients, \* hmis.patient: the patients whose status is not 'active'
    activities,       \* mail.activity: the number of follow-ups per (appointment, day made)
    fRes,             \* auto_follow_up_patients: the value last returned
    saRecords,        \* server action: the stored records of its model, by id
    saActivities,     \* server action: the number of mail.activity per record
    saRes,            \* server action: the last call and the notification returned
    consStudents,     \* consolidated.student: the stored records, by id
    consCreatedIds,   \* history: the student_id each record was created with
    ltaProfiles,      \* lta.operator.profile: the ids of the stored records
    ltaLicenses,      \* lta.license: the stored records
    ltaDeclared,      \* lta.uaf.declaration: the profiles some declaration refers to
    ltaNextId,        \* the database id of the next profile and of the next license
    ltaRes,           \* LTA: the last call and its outcome
    medicalRecords,   \* hmis.medical.record: the number of records per appointment
    apRes,            \* hmis.appointment: the last action method called and on what
    qtyAvailable,     \* hmis.medicine: qty_available of each medicine
    prescriptions,    \* hmis.prescription: the stored records with their lines, by id
    rxRes,            \* hmis.prescription: the last call and its outcome
    rxDispensed,      \* history: how many times each prescription's lines were
                      \* subtracted from the stock
    saleOrders,       \* sale.order: the stored records, by id
    opRes,            \* auto_process_orders: the last call and the value returned
    consSchools,      \* consolidated.school: the stored records, by id
    execRes,          \* execute_all_schools_operation: the last call, its inputs
                      \* and the results returned
    schStudents,      \* school.student: class, roll number and status, by id
    schYearEnd,       \* school.academic.year: end_date of the current year, or
                      \* NoDate when no year is current
    promoRes,         \* school.student and auto_promote_students: the last call
                      \* and its outcome
    regPatients,      \* auto_register_patient: the hmis.patient records it created
    regRes,           \* auto_register_patient: the last call, its records and the
                      \* type of the notification returned
    uafDeclarations,  \* lta.uaf.declaration: period and state of the records, by id
    uafRes,           \* lta.generate.uaf.invoice: the last call, the wizard's dates
                      \* and the declarations the call wrote
    userGroups,       \* res.users: the names of the groups of the user (groups_id)
    accRes            \* check_hmis_access_rights: the last call, its arguments and
                      \* the value returned

\* A Date field that holds no date (False in the ORM).
NoDate == 0 - 1

\* ------------------------------------------------------------------ bounds

\* Year of ordinal 0 (a leap year, so that February 29th is among the dates).
EpochYear == 2024
\* Largest ordinal the calendar specification draws dates from.
MaxOrdinal == 430

\* hospital.patient: number of create calls that store a record.
MaxPatientCreates == 3
\* hospital.patient: the current date of its specifications.
PatientToday == 100
\* hospital.patient: how far the dates of birth drawn lie from the current date.
DobSpread == 3

\* hospital.icu.bed: number of beds that are ever stored.
MaxBeds == 2
\* hospital.icu.bed: largest number of values in one create call.
MaxBedBatch == 2

\* hmis.patient and school.student: number of records that are ever stored.
MaxDated == 2
\* hmis.patient and school.student: number of days the current date advances.
MaxDayAdvance == 2

\* Attendance and follow-up jobs: number of days the current date advances.
MaxJobDays == 1
\* school.attendance: largest number of records stored in one table.
MaxAttendance == 5
\* mark_bulk_attendance: largest number of records in the recordset given.
MaxBulk == 2
\* hmis.appointment: number of appointments that are ever stored.
MaxAppointments == 2
\* mail.activity: largest number of follow-up activities stored.
MaxActivities == 4

\* Server action: number of records of its model that are ever stored.
MaxActionRecords == 2
\* Server action: largest number of activities stored for one record.
MaxActionActivities == 2

\* consolidated.student: number of records that are ever stored.
MaxConsStudents == 2
\* consolidated.student: largest school_roll_number written.
MaxRoll == 2

\* lta.operator.profile: number of profiles that are ever stored.
MaxLtaProfiles == 2
\* lta.license: number of licenses that are ever stored.
MaxLtaLicenses == 2

\* hmis.prescription: number of prescriptions that are ever stored.
MaxPrescriptions == 2
\* hmis.prescription: largest number of lines of a prescription.
MaxLines == 2
\* hmis.prescription.line: largest quantity of a line.
MaxQuantity == 2
\* hmis.medicine: qty_available of each medicine in the initial state.
InitialStock == 2
\* hmis.medicine: how far below zero qty_available is followed.
MaxOverdraw == 2

\* sale.order: number of orders that are ever stored.
MaxOrders == 2

\* consolidated.school: number of schools that are ever stored.
MaxSchools == 2

\* school.student: number of students whose class and roll number are stored.
MaxSchStudents == 2

\* auto_register_patient: number of patients that are ever registered, and
\* number of input records of one call.
MaxRegistered == 3
MaxRegBatch == 2

\* lta.uaf.declaration: number of declarations that are ever stored.
MaxDeclarations == 2

\* ---------------------------------------------------------------- calendar
\* datetime.date as the code uses it: year/month/day fields, the constructor
\* date(y, m, d), comparison and subtraction.

IsLeap(y) == (y % 4 = 0 /\ y % 100 # 0) \/ y % 400 = 0

DaysInYear(y) == IF IsLeap(y) THEN 366 ELSE 365

DaysInMonth(y, m) ==
    IF m = 2 THEN (IF IsLeap(y) THEN 29 ELSE 28)
    ELSE IF m \in {4, 6, 9, 11} THEN 30 ELSE 31

RECURSIVE DaysBeforeYear(_)
DaysBeforeYear(y) ==
    IF y = EpochYear THEN 0
    ELSE IF y > EpochYear THEN DaysBeforeYear(y - 1) + DaysInYear(y - 1)
    ELSE DaysBeforeYear(y + 1) - DaysInYear(y)

RECURSIVE DaysBeforeMonth(_, _)
DaysBeforeMonth(y, m) ==
    IF m <= 1 THEN 0 ELSE DaysBeforeMonth(y, m - 1) + DaysInMonth(y, m - 1)

\* date(y, m, d) raises ValueError for a month or a day out of range.
DateCtorRaises(y, m, d) ==
    ~(m \in 1..12 /\ d >= 1 /\ d <= DaysInMonth(y, m))

\* date(y, m, d) for a valid date: its ordinal.
DateCtor(y, m, d) == DaysBeforeYear(y) + DaysBeforeMonth(y, m) + d - 1

RECURSIVE YearFrom(_, _)
YearFrom(n, y) ==
    IF n < DaysInYear(y) THEN <<y, n>> ELSE YearFrom(n - DaysInYear(y), y + 1)

RECURSIVE MonthFrom(_, _, _)
MonthFrom(n, y, m) ==
    IF n < DaysInMonth(y, m) THEN <<m, n + 1>>
    ELSE MonthFrom(n - DaysInMonth(y, m), y, m + 1)

\* The year, month and day fields of the date with ordinal n.
Civil(n) ==
    LET yn == YearFrom(n, EpochYear)
        md == MonthFrom(yn[2], yn[1], 1)
    IN  [year |-> yn[1], month |-> md[1], day |-> md[2]]

\* ------------------------------------------------ Patient._compute_age_display

\* The text assigned to record.age, kept as its format and the numbers put in it:
\*   "age"    : f"{a} year(s), {b} month(s), {c} day(s) old"
\*   "future" : f"Will be born in {a} day(s)"
\*   "unset"  : "Date of birth not set"
\*   "ValueError" : the method raised, record.age was not assigned
AgeText(kind, a, b, c) == [kind |-> kind, a |-> a, b |-> b, c |-> c]

\* Lines 109-116: the branch taken when today.day < dob.day. The result is
\* whether a date constructor raised, and delta_months and delta_days after it.
BorrowDays(t, delta_months, delta_days) ==
    LET prev_month == IF t.month - 1 # 0 THEN t.month - 1 ELSE 12
        prev_month_year == IF t.month # 1 THEN t.year ELSE t.year - 1
    IN  IF DateCtorRaises(prev_month_year, prev_month + 1, 1)
           \/ DateCtorRaises(prev_month_year, prev_month, 1)
        THEN [raised |-> TRUE, months |-> delta_months - 1, days |-> delta_days]
        ELSE LET days_in_prev_month ==
                     DateCtor(prev_month_year, prev_month + 1, 1)
                     - DateCtor(prev_month_year, prev_month, 1)
             IN  [raised |-> FALSE, months |-> delta_months - 1,
                  days |-> delta_days + days_in_prev_month]

\* Lines 124-125: the text for a date of birth after today.
FutureTextSwapped(dob, tdy) == AgeText("future", tdy - dob, 0, 0)

FutureText(dob, tdy) == AgeText("future", dob - tdy, 0, 0)

\* Patient._compute_age_display (lines 97-127) for one record.
compute_age_display(dob, tdy) ==
    IF dob = NoDate THEN AgeText("unset", 0, 0, 0)
    ELSE IF dob <= tdy THEN
        LET t == Civil(tdy)
            b == Civil(dob)
            delta_years == t.year - b.year
            delta_months == t.month - b.month
            delta_days == t.day - b.day
            md == IF delta_days < 0
                  THEN BorrowDays(t, delta_months, delta_days)
                  ELSE [raised |-> FALSE, months |-> delta_months, days |-> delta_days]
        IN  IF md.raised THEN AgeText("ValueError", 0, 0, 0)
            ELSE IF md.months < 0
                 THEN AgeText("age", delta_years - 1, md.months + 12, md.days)
                 ELSE AgeText("age", delta_years, md.months, md.days)
    ELSE FutureText(dob, tdy)

\* ------------------------------------------------------------ ir.sequence
\* The sequence record create() makes when none has the code (lines 80-87).
NewPatientSequence ==
    [exists |-> TRUE, prefix |-> "PAT", padding |-> 4, number_next |-> 1,
     number_increment |-> 1]

NoSequence ==
    [exists |-> FALSE, prefix |-> "", padding |-> 0, number_next |-> 0,
     number_increment |-> 0]

RECURSIVE Digits(_)
\* The decimal digits of n >= 0, most significant first.
Digits(n) == IF n < 10 THEN <<n>> ELSE Append(Digits(n \div 10), n % 10)

RECURSIVE ZeroPad(_, _)
ZeroPad(ds, width) == IF Len(ds) >= width THEN ds ELSE ZeroPad(<<0>> \o ds, width)

\* An identifier text: a prefix followed by digits.
IdText(prefix, ds) == [prefix |-> prefix, digits |-> ds]

\* 'New', the default of patient_id (line 13).
PidNew == IdText("New", <<>>)

\* ir.sequence.next_by_code as create() uses it (line 93): the prefix and the
\* zero-padded number_next of the sequence, or False (here PidNew, the 'or'
\* of line 93) when no sequence has the code.
next_by_code(seq) ==
    IF seq.exists THEN IdText(seq.prefix, ZeroPad(Digits(seq.number_next), seq.padding))
    ELSE PidNew

\* The sequence after next_by_code.
SequenceAfterNextStuck(seq) == seq

SequenceAfterNext(seq) ==
    IF seq.exists
    THEN [seq EXCEPT !.number_next = seq.number_next + seq.number_increment]
    ELSE seq

RECURSIVE DigitsValue(_)
DigitsValue(ds) ==
    IF Len(ds) = 0 THEN 0
    ELSE 10 * DigitsValue(SubSeq(ds, 1, Len(ds) - 1)) + ds[Len(ds)]

\* The numeric part of an identifier text.
NumericPart(pid) == DigitsValue(pid.digits)

\* ------------------------------------------------------- hospital.patient
\* vals of create: name, contact_number ("" when absent), date_of_birth
\* (NoDate when absent) and patient_id (PidAbsent when the caller gives none).

PidAbsent == IdText("", <<>>)
PidCustom == IdText("EXT", <<7>>)

Names == {"Asha", "Ravi"}
Contacts == {"900"}

NoVals == [name |-> "", contact_number |-> "", date_of_birth |-> NoDate,
           patient_id |-> PidAbsent]

PRes(op, rec, vals, raised, msgName) ==
    [op |-> op, rec |-> rec, vals |-> vals, raised |-> raised, msgName |-> msgName]

\* search([('contact_number', '=', contact_number)], limit=1) (lines 68-70):
\* the matches, and the first of them in the default order (by id).
SearchContact(contact_number) == {p \in patients : p.contact_number = contact_number}

FirstOf(recs) == CHOOSE p \in recs : \A q \in recs : p.id <= q.id

\* Lines 78-87: the sequence with code 'hospital.patient', created when missing.
EnsureSequence(seq) == IF seq.exists THEN seq ELSE NewPatientSequence

\* Lines 89-90: number_next is set to 1 when no patient is stored.
ResetWhenEmptyFlipped(seq, stored) ==
    IF stored # {} THEN [seq EXCEPT !.number_next = 1] ELSE seq

ResetWhenEmpty(seq, stored) ==
    IF stored = {} THEN [seq EXCEPT !.number_next = 1] ELSE seq

\* Lines 66-73: the duplicate-contact guard; TRUE when create raises.
ContactGuardOff(vals) == FALSE

ContactGuard(vals) ==
    vals.contact_number # "" /\ SearchContact(vals.contact_number) # {}

\* Patient.create (lines 64-95). The method reads vals_list as one mapping
\* of values, and so does the model.
CreatePatient(vals) ==
    IF ContactGuard(vals)
    THEN /\ pRes' = PRes("create", 0, vals, "ValidationError",
                         FirstOf(SearchContact(vals.contact_number)).name)
         /\ UNCHANGED <<patients, patientSeq, patientNextId, issued, deleted, restartAt>>
    ELSE LET seq1 == ResetWhenEmpty(EnsureSequence(patientSeq), patients)
             fromSeq == vals.patient_id \in {PidAbsent, PidNew}
             pid == IF fromSeq THEN next_by_code(seq1) ELSE vals.patient_id
         IN  /\ patientNextId <= MaxPatientCreates
             /\ patientSeq' = IF fromSeq THEN SequenceAfterNext(seq1) ELSE seq1
             /\ issued' = IF fromSeq THEN Append(issued, NumericPart(pid)) ELSE issued
             /\ restartAt' = IF patients = {} THEN Len(issued) ELSE restartAt
             /\ patients' = patients \cup
                    {[id |-> patientNextId, name |-> vals.name,
                      contact_number |-> vals.contact_number,
                      date_of_birth |-> vals.date_of_birth,
                      patient_id |-> pid,
                      auto |-> (vals.patient_id = PidAbsent)]}
             /\ patientNextId' = patientNextId + 1
             /\ pRes' = PRes("create", patientNextId, vals, "", "")
             /\ UNCHANGED deleted

\* write on one stored record: Patient does not override it, no guard runs.
WritePatient(id, field, value) ==
    /\ \E p \in patients : p.id = id
    /\ patients' = {IF p.id = id THEN [p EXCEPT ![field] = value] ELSE p : p \in patients}
    /\ pRes' = PRes("write", id,
                    [NoVals EXCEPT ![field] = value], "", "")
    /\ UNCHANGED <<patientSeq, patientNextId, issued, deleted, restartAt>>

\* unlink on a set of stored records: Patient does not override it.
UnlinkPatients(ids) ==
    /\ ids # {}
    /\ ids \subseteq {p.id : p \in patients}
    /\ patients' = {p \in patients : p.id \notin ids}
    /\ deleted' = TRUE
    /\ pRes' = PRes("unlink", 0, NoVals, "", "")
    /\ UNCHANGED <<patientSeq, patientNextId, issued, restartAt>>

\* ------------------------------------------------------- hospital.icu.bed
\* A bed has a name (a text, here a sequence of characters) and a status.

\* The values of the status field; unlink and _compute_availability compare it
\* with 'booked' and 'available'.
BedStatuses == {"available", "booked", "occupied"}

DigitChars == {"0", "1", "2", "3", "4", "5", "6", "7", "8", "9"}

\* str.isnumeric(): at least one character, and all of them numeric.
IsNumeric(name) == Len(name) > 0 /\ \A i \in DOMAIN name : name[i] \in DigitChars

BedNames == {<<>>, <<"1", "2">>, <<"A", "1">>, <<"A", "2">>}

BRes(op, recs, raised) == [op |-> op, recs |-> recs, raised |-> raised]

\* Lines 35-38 for one vals of the batch: TRUE when create raises on it. A
\* name of no character stands for a missing and for an empty name.
BedValsRejectedNumericPasses(vals) ==
    \/ Len(vals.name) = 0
    \/ \E b \in beds : b.name = vals.name

BedValsRejected(vals) ==
    \/ Len(vals.name) = 0
    \/ IsNumeric(vals.name)
    \/ \E b \in beds : b.name = vals.name

\* HospitalICUBed.create (lines 31-39): every vals is checked against the
\* stored beds, then all of them are stored.
CreateBeds(vals_list) ==
    IF \E i \in DOMAIN vals_list : BedValsRejected(vals_list[i])
    THEN /\ bRes' = BRes("create", {}, "ValidationError")
         /\ bBatch' = [i \in DOMAIN vals_list |-> vals_list[i].name]
         /\ UNCHANGED <<beds, bedNextId>>
    ELSE /\ bedNextId + Len(vals_list) - 1 <= MaxBeds
         /\ beds' = beds \cup
                {[id |-> bedNextId + i - 1, name |-> vals_list[i].name,
                  status |-> vals_list[i].status] : i \in DOMAIN vals_list}
         /\ bedNextId' = bedNextId + Len(vals_list)
         /\ bRes' = BRes("create", {}, "")
         /\ bBatch' = [i \in DOMAIN vals_list |-> vals_list[i].name]

\* write of status on one stored bed: HospitalICUBed does not override write.
WriteBedStatus(id, status) ==
    /\ \E b \in beds : b.id = id
    /\ beds' = {IF b.id = id THEN [b EXCEPT !.status = status] ELSE b : b \in beds}
    /\ bRes' = BRes("write", {}, "")
    /\ bBatch' = <<>>
    /\ UNCHANGED bedNextId

\* Lines 42-44: TRUE when unlink raises on the recordset.
UnlinkGuardFirstOnly(recs) ==
    recs # {} /\ (CHOOSE b \in recs : \A c \in recs : b.id <= c.id).status = "booked"

UnlinkGuard(recs) == \E b \in recs : b.status = "booked"

\* HospitalICUBed.unlink (lines 41-45) on the stored beds with the given ids.
\* bRes keeps the recordset as it was when unlink was called.
UnlinkBeds(ids) ==
    LET recs == {b \in beds : b.id \in ids}
    IN  /\ ids # {}
        /\ ids \subseteq {b.id : b \in beds}
        /\ IF UnlinkGuard(recs)
           THEN /\ bRes' = BRes("unlink", recs, "ValidationError")
                /\ bBatch' = <<>>
                /\ UNCHANGED <<beds, bedNextId>>
           ELSE /\ beds' = beds \ recs
                /\ bRes' = BRes("unlink", recs, "")
                /\ bBatch' = <<>>
                /\ UNCHANGED bedNextId

\* ------------------------------------------ hmis.patient and school.student
\* Both models declare date_of_birth with the same constraint method.

DatedModels == {"hmis.patient", "school.student"}

DRes(op, model, dob, raised) ==
    [op |-> op, model |-> model, date_of_birth |-> dob, raised |-> raised]

\* HMISPatient._check_date_of_birth (PythonCodeHMIS.py lines 81-85): TRUE when
\* it raises ValidationError for a record with this date of birth.
HMISPatient_check_date_of_birth_lenient(dob, tdy) == dob > tdy + 1

HMISPatient_check_date_of_birth(dob, tdy) == dob > tdy

\* SchoolStudent._check_date_of_birth (OdooPythonTutorialSchool.py lines 94-98).
SchoolStudent_check_date_of_birth(dob, tdy) == dob > tdy

\* The 365 of 'delta.days // 365' (PythonCodeHMIS.py line 76, School line 89).
DaysPerYear == 365

\* HMISPatient._compute_age (PythonCodeHMIS.py lines 70-78) and
\* SchoolStudent._compute_age: the value assigned to the age field. The field
\* is declared store=True and the method depends on date_of_birth only, so it
\* runs when date_of_birth is set, and a read returns the value stored then.
compute_age(dob, tdy) ==
    IF dob # NoDate THEN (tdy - dob) \div DaysPerYear ELSE 0

\* The @api.constrains('date_of_birth') method of the model.
DobConstraintRaises(model, dob, tdy) ==
    IF model = "hmis.patient" THEN HMISPatient_check_date_of_birth(dob, tdy)
    ELSE SchoolStudent_check_date_of_birth(dob, tdy)

\* create with a date_of_birth: the constraint runs on the new record, and a
\* ValidationError leaves nothing stored.
CreateDatedRecord(model, dob) ==
    IF DobConstraintRaises(model, dob, today)
    THEN /\ dRes' = DRes("create", model, dob, "ValidationError")
         /\ UNCHANGED <<dated, datedNextId>>
    ELSE /\ datedNextId <= MaxDated
         /\ dated' = [dated EXCEPT ![model] =
                         @ \cup {[id |-> datedNextId, date_of_birth |-> dob,
                                  age |-> compute_age(dob, today)]}]
         /\ datedNextId' = datedNextId + 1
         /\ dRes' = DRes("create", model, dob, "")

\* write of date_of_birth on a stored record: the constraint runs on the
\* written record, and a ValidationError undoes the write.
WriteDatedDob(model, id, dob) ==
    /\ \E r \in dated[model] : r.id = id
    /\ IF DobConstraintRaises(model, dob, today)
       THEN /\ dRes' = DRes("write", model, dob, "ValidationError")
            /\ UNCHANGED <<dated, datedNextId>>
       ELSE /\ dated' = [dated EXCEPT ![model] =
                            {IF r.id = id
                             THEN [r EXCEPT !.date_of_birth = dob,
                                            !.age = compute_age(dob, today)]
                             ELSE r
                             : r \in @}]
            /\ dRes' = DRes("write", model, dob, "")
            /\ UNCHANGED datedNextId

\* --------------------------------------------------------- school.attendance
\* Students are known by their database ids; a table of attendance records is
\* the number of records stored for each (student, date, status).

Students == {1, 2}

Schools == {"S1", "S2"}

NoSchool == "None"

\* consolidated.student: the school_id of each student.
SchoolOf(s) == IF s = 1 THEN "S1" ELSE "S2"

JobDates == PatientToday..(PatientToday + MaxJobDays)

AttStatuses == {"absent", "present"}

AttKeys == Students \X JobDates \X AttStatuses

EmptyTable == [k \in AttKeys |-> 0]

RECURSIVE SumOver(_, _)
SumOver(f, keys) ==
    IF keys = {} THEN 0
    ELSE LET k == CHOOSE x \in keys : TRUE IN f[k] + SumOver(f, keys \ {k})

\* The number of records of a student on a date.
RecordsOf(table, s, d) == SumOver(table, {<<s, d, st>> : st \in AttStatuses})

RECURSIVE SortedById(_)
\* A recordset in the default order.
SortedById(ids) ==
    IF ids = {} THEN <<>>
    ELSE LET m == CHOOSE x \in ids : \A y \in ids : x <= y
         IN  <<m>> \o SortedById(ids \ {m})

\* Attendance.search([('student_id', '=', student.id), ('date', '=', today)]):
\* TRUE when it finds a record.
ExistingAbsentOnly(table, s, d) == table[<<s, d, "absent">>] > 0

Existing(table, s, d) == \E st \in AttStatuses : table[<<s, d, st>>] > 0

ARes(op, count, raised) == [op |-> op, count |-> count, raised |-> raised]

RECURSIVE AttendanceLoop(_, _, _, _, _, _)
\* The loop over the students (School lines 338-355 and 405-421, Consolidated
\* lines 340-354): a record with the given status is created for every student
\* that has none for the date. Attendance.create raises for the students in
\* failing; the loop ends at the first of them, with the records made before it.
AttendanceLoop(todo, table, d, status, failing, count) ==
    IF todo = <<>> THEN [table |-> table, count |-> count, raised |-> FALSE]
    ELSE LET s == Head(todo)
         IN  IF Existing(table, s, d)
             THEN AttendanceLoop(Tail(todo), table, d, status, failing, count)
             ELSE IF s \in failing
                  THEN [table |-> table, count |-> count, raised |-> TRUE]
                  ELSE AttendanceLoop(Tail(todo),
                                      [table EXCEPT ![<<s, d, status>>] = @ + 1],
                                      d, status, failing, count + 1)

\* SMISAutomatedTasks.auto_generate_daily_attendance (School lines 391-428):
\* the active students get an 'absent' record; an exception ends the run, which
\* then returns 0.
auto_generate_daily_attendance(failing) ==
    LET r == AttendanceLoop(SortedById(activeStudents), attendance, today,
                            "absent", failing, 0)
    IN  /\ SumOver(r.table, AttKeys) <= MaxAttendance
        /\ attendance' = r.table
        /\ aRes' = ARes("auto_generate", IF r.raised THEN 0 ELSE r.count, r.raised)
        /\ aFailing' = failing
        /\ UNCHANGED <<activeStudents, consAttendance>>

\* mark_bulk_attendance (School lines 328-379): the students of the recordset
\* get a 'present' record; an exception ends the run with a notification.
mark_bulk_attendance(records, failing) ==
    LET r == AttendanceLoop(records, attendance, today, "present", failing, 0)
    IN  /\ SumOver(r.table, AttKeys) <= MaxAttendance
        /\ attendance' = r.table
        /\ aRes' = ARes("mark_bulk", r.count, r.raised)
        /\ aFailing' = {}
        /\ UNCHANGED <<activeStudents, consAttendance>>

\* ConsolidatedAutomatedTasks._auto_generate_daily_attendance (Consolidated
\* lines 325-356) with default_school_id in the context: the active students of
\* the school get an 'absent' record. The method catches nothing: an exception
\* leaves it, and the records of the run are not stored.
consolidated_auto_generate_daily_attendance(school_id, failing) ==
    IF school_id = NoSchool
    THEN /\ aRes' = ARes("No school context", 0, FALSE)
         /\ aFailing' = {}
         /\ UNCHANGED <<activeStudents, attendance, consAttendance>>
    ELSE LET students == {s \in activeStudents : SchoolOf(s) = school_id}
             r == AttendanceLoop(SortedById(students), consAttendance, today,
                                 "absent", failing, 0)
         IN  /\ SumOver(r.table, AttKeys) <= MaxAttendance
             /\ consAttendance' = IF r.raised THEN consAttendance ELSE r.table
             /\ aRes' = ARes("consolidated_auto_generate", r.count, r.raised)
             /\ aFailing' = {}
             /\ UNCHANGED <<activeStudents, attendance>>

\* write of status on a student.
SetStudentStatus(s, isActive) ==
    /\ activeStudents' = IF isActive THEN activeStudents \cup {s}
                         ELSE activeStudents \ {s}
    /\ aRes' = ARes("write", 0, FALSE)
    /\ aFailing' = {}
    /\ UNCHANGED <<attendance, consAttendance>>

\* ------------------------------------------------------ hmis.automated.tasks
\* Datetimes are counted in days: fields.Datetime.now() is the current date.

HmisPatients == {1, 2}

\* timedelta(days=7) of line 334.
FollowUpDays == 7
\* timedelta(days=1) of line 339.
FollowUpWindow == 1

AppointmentStates == {"confirmed", "done"}

AppointmentDates == (PatientToday - FollowUpDays - FollowUpWindow)..(PatientToday - FollowUpDays + 1)

ActKeys == (1..MaxAppointments) \X JobDates

\* create of an appointment.
CreateAppointment(patient, st, d) ==
    LET id == Cardinality(appointments) + 1
    IN  /\ id <= MaxAppointments
        /\ appointments' = appointments \cup
               {[id |-> id, patient_id |-> patient, state |-> st, appointment_date |-> d]}
        /\ UNCHANGED <<inactivePatients, activities, fRes>>

\* write of status on a patient.
SetPatientStatus(patient, isActive) ==
    /\ inactivePatients' = IF isActive THEN inactivePatients \ {patient}
                           ELSE inactivePatients \cup {patient}
    /\ UNCHANGED <<appointments, activities, fRes>>

\* The search of lines 337-342: the completed appointments of active patients
\* dated from 8 to 7 days before now.
FollowUpAppointments(now) ==
    LET follow_up_date == now - FollowUpDays
    IN  {a \in appointments :
            /\ a.state = "done"
            /\ a.appointment_date >= follow_up_date - FollowUpWindow
            /\ a.appointment_date <= follow_up_date
            /\ a.patient_id \notin inactivePatients}

\* HMISAutomatedTasks.auto_follow_up_patients (lines 329-360): one activity is
\* scheduled for every appointment found, and their number is returned.
auto_follow_up_patients ==
    LET found == FollowUpAppointments(today)
        made == [k \in ActKeys |->
                    IF k[2] = today /\ \E a \in found : a.id = k[1]
                    THEN activities[k] + 1 ELSE activities[k]]
    IN  /\ SumOver(made, ActKeys) <= MaxActivities
        /\ activities' = made
        /\ fRes' = Cardinality(found)
        /\ UNCHANGED <<appointments, inactivePatients>>

\* ------------------------------- Advanced Server Action with Error Handling
\* OdooPythonBasics.py lines 77-134. The records of the action's model are
\* kept in a sequence, a record's id being its index.

\* The amount of line 85.
ApprovalThreshold == 10000

\* The values a record is created with; partner_id and confirmed_by are kept
\* as whether they are set.
ActionRecordVals ==
    [partner_id : BOOLEAN, amount_total : {ApprovalThreshold, ApprovalThreshold + 1},
     create_activity : BOOLEAN, state : {"draft"}, requires_approval : {FALSE},
     confirmed_by : {FALSE}, confirmation_date : {NoDate}]

SARes(op, records, processed, notification) ==
    [op |-> op, records |-> records, processed |-> processed,
     notification |-> notification]

\* create of one record of the action's model.
CreateActionRecord(vals) ==
    /\ Len(saRecords) < MaxActionRecords
    /\ saRecords' = Append(saRecords, vals)
    /\ saRes' = SARes("create", <<>>, <<>>, "")
    /\ UNCHANGED saActivities

RECURSIVE ServerActionLoop(_, _, _, _)
\* Lines 79-108: the loop over records. Each record without partner raises
\* UserError; the others are written and, when create_activity is set, get an
\* activity. The result holds what the loop had done when it ended.
ServerActionLoop(todo, recs, acts, processed) ==
    IF todo = <<>>
    THEN [records |-> recs, activities |-> acts, processed |-> processed,
          raised |-> FALSE]
    ELSE LET i == Head(todo)
             record == recs[i]
             written ==
                 IF record.amount_total > ApprovalThreshold
                 THEN [record EXCEPT !.requires_approval = TRUE,
                                     !.state = "waiting_approval"]
                 ELSE [record EXCEPT !.state = "confirmed",
                                     !.confirmed_by = TRUE,
                                     !.confirmation_date = today]
         IN  IF ~record.partner_id
             THEN [records |-> recs, activities |-> acts, processed |-> processed,
                   raised |-> TRUE]
             ELSE ServerActionLoop(
                      Tail(todo), [recs EXCEPT ![i] = written],
                      IF record.create_activity THEN [acts EXCEPT ![i] = @ + 1] ELSE acts,
                      Append(processed, i))

\* The whole action (lines 77-134) on a recordset: the except clause turns the
\* exception into an error notification and the action returns normally, with
\* the writes and activities made before the exception left in place.
advanced_server_action(records) ==
    LET r == ServerActionLoop(records, saRecords, saActivities, <<>>)
    IN  /\ \A i \in DOMAIN r.activities : r.activities[i] <= MaxActionActivities
        /\ saRecords' = r.records
        /\ saActivities' = r.activities
        /\ saRes' = SARes("action", records, r.processed,
                          IF r.raised THEN "Error"
                          ELSE IF r.processed # <<>> THEN "Success" ELSE "")

\* ------------------------------------------------------ consolidated.student
\* OdooPythonTutorialConsolidated.py lines 147-216. The records are kept in a
\* sequence, a record's id being its index; a school is known by its code.

\* _compute_student_id (lines 182-188): f"{code}-{roll:04d}", or "Pending" when
\* the school or the roll number is not set (a roll number of 0 is not set).
compute_student_id(school_id, school_roll_number) ==
    IF school_id # NoSchool /\ school_roll_number # 0
    THEN IdText(school_id \o "-", ZeroPad(Digits(school_roll_number), 4))
    ELSE IdText("Pending", <<>>)

\* create with a school and a roll number: student_id is computed and stored.
CreateConsolidatedStudent(school_id, school_roll_number) ==
    LET student_id == compute_student_id(school_id, school_roll_number)
    IN  /\ Len(consStudents) < MaxConsStudents
        /\ consStudents' = Append(consStudents,
               [school_id |-> school_id, school_roll_number |-> school_roll_number,
                student_id |-> student_id])
        /\ consCreatedIds' = Append(consCreatedIds, student_id)

\* write of school_id and school_roll_number on a stored record: student_id is
\* a stored computed field that depends on both (line 182), so it is computed
\* again and stored.
WriteConsolidatedStudent(id, school_id, school_roll_number) ==
    /\ id \in DOMAIN consStudents
    /\ consStudents' = [consStudents EXCEPT ![id] =
           [school_id |-> school_id, school_roll_number |-> school_roll_number,
            student_id |-> compute_student_id(school_id, school_roll_number)]]
    /\ UNCHANGED consCreatedIds

\* ------------------------------------- lta.operator.profile and lta.license
\* LTAOperatorManagementApp.py: the Many2one fields that refer to
\* lta.operator.profile and their ondelete rules.

LtaRes(op, ids, raised) == [op |-> op, ids |-> ids, raised |-> raised]

\* create of an lta.operator.profile.
LtaCreateProfile ==
    /\ ltaNextId.profile <= MaxLtaProfiles
    /\ ltaProfiles' = ltaProfiles \cup {ltaNextId.profile}
    /\ ltaNextId' = [ltaNextId EXCEPT !.profile = @ + 1]
    /\ ltaRes' = LtaRes("create_profile", {}, "")
    /\ UNCHANGED <<ltaLicenses, ltaDeclared>>

\* create of an lta.license: operator_profile_id is required (line 119) and
\* refers to a stored profile.
LtaCreateLicense(profile) ==
    /\ profile \in ltaProfiles
    /\ ltaNextId.license <= MaxLtaLicenses
    /\ ltaLicenses' = ltaLicenses \cup
           {[id |-> ltaNextId.license, operator_profile_id |-> profile]}
    /\ ltaNextId' = [ltaNextId EXCEPT !.license = @ + 1]
    /\ ltaRes' = LtaRes("create_license", {}, "")
    /\ UNCHANGED <<ltaProfiles, ltaDeclared>>

\* write of operator_profile_id on a stored license.
LtaWriteLicenseOperator(id, profile) ==
    /\ profile \in ltaProfiles
    /\ \E l \in ltaLicenses : l.id = id
    /\ ltaLicenses' = {IF l.id = id THEN [l EXCEPT !.operator_profile_id = profile]
                       ELSE l : l \in ltaLicenses}
    /\ ltaRes' = LtaRes("write_license", {}, "")
    /\ UNCHANGED <<ltaProfiles, ltaDeclared, ltaNextId>>

\* create (isDeclared) and unlink of the lta.uaf.declaration records of a
\* profile; their operator_profile_id is required and names no ondelete
\* (line 158).
LtaSetDeclared(profile, isDeclared) ==
    /\ profile \in ltaProfiles
    /\ ltaDeclared' = IF isDeclared THEN ltaDeclared \cup {profile}
                      ELSE ltaDeclared \ {profile}
    /\ ltaRes' = LtaRes("declaration", {}, "")
    /\ UNCHANGED <<ltaProfiles, ltaLicenses, ltaNextId>>

\* ondelete='cascade' of LtaLicense.operator_profile_id (line 119): the
\* licenses deleted with the profiles.
LicensesCascadedNone(profiles) == {}

LicensesCascaded(profiles) ==
    {l \in ltaLicenses : l.operator_profile_id \in profiles}

\* unlink of a set of profiles. A required Many2one that names no ondelete
\* restricts: the unlink raises while a declaration refers to one of the
\* profiles, and deletes nothing.
LtaUnlinkProfiles(ids) ==
    /\ ids # {}
    /\ ids \subseteq ltaProfiles
    /\ IF ids \cap ltaDeclared # {}
       THEN /\ ltaRes' = LtaRes("unlink_profile", ids, "IntegrityError")
            /\ UNCHANGED <<ltaProfiles, ltaLicenses, ltaDeclared, ltaNextId>>
       ELSE /\ ltaProfiles' = ltaProfiles \ ids
            /\ ltaLicenses' = ltaLicenses \ LicensesCascaded(ids)
            /\ ltaRes' = LtaRes("unlink_profile", ids, "")
            /\ UNCHANGED <<ltaDeclared, ltaNextId>>

\* ------------------------------------------- hmis.appointment action methods
\* PythonCodeHMIS.py lines 151-197, on the recordset of the stored appointments
\* with the given ids.

APRes(op, ids) == [op |-> op, ids |-> ids]

\* The assignments of the action methods: the appointments of the recordset
\* that are in one of the states from get the state to.
WithState(ids, from, to) ==
    {IF a.id \in ids /\ a.state \in from THEN [a EXCEPT !.state = to] ELSE a
     : a \in appointments}

\* action_confirm (lines 151-156); _send_appointment_confirmation queues a
\* mail and catches its own exceptions.
action_confirm(ids) ==
    /\ appointments' = WithState(ids, {"draft"}, "confirmed")
    /\ apRes' = APRes("action_confirm", ids)
    /\ UNCHANGED <<medicalRecords, inactivePatients, activities, fRes>>

\* action_start_consultation (lines 158-161).
action_start_consultation(ids) ==
    /\ appointments' = WithState(ids, {"confirmed"}, "in_consultation")
    /\ apRes' = APRes("action_start_consultation", ids)
    /\ UNCHANGED <<medicalRecords, inactivePatients, activities, fRes>>

\* action_complete (lines 163-168) with _create_medical_record (lines
\* 185-197): for every appointment of the recordset found in_consultation,
\* line 168 calls self._create_medical_record(), which creates one record for
\* each appointment of self, the whole recordset.
action_complete(ids) ==
    LET completed == {a \in appointments : a.id \in ids /\ a.state = "in_consultation"}
    IN  /\ appointments' = WithState(ids, {"in_consultation"}, "done")
        /\ medicalRecords' =
               [i \in DOMAIN medicalRecords |->
                   IF i \in ids THEN medicalRecords[i] + Cardinality(completed)
                   ELSE medicalRecords[i]]
        /\ apRes' = APRes("action_complete", ids)
        /\ UNCHANGED <<inactivePatients, activities, fRes>>

\* The states of line 172.
CancelFromAnyOpen == {"draft", "confirmed", "in_consultation"}

CancelFrom == {"draft", "confirmed"}

\* action_cancel (lines 170-173).
action_cancel(ids) ==
    /\ appointments' = WithState(ids, CancelFrom, "cancelled")
    /\ apRes' = APRes("action_cancel", ids)
    /\ UNCHANGED <<medicalRecords, inactivePatients, activities, fRes>>

\* ----------------------------------------------------------- hmis.prescription
\* PythonCodeHMIS.py lines 423-483. The prescriptions are kept in a sequence, a
\* record's id being its index; prescription_line_ids is a sequence of lines,
\* each with its medicine_id and quantity.

Medicines == {"M1", "M2"}

PrescriptionLines ==
    UNION {[1..n -> [medicine_id : Medicines, quantity : 1..MaxQuantity]]
           : n \in 1..MaxLines}

RxRes(op, ids, raised) == [op |-> op, ids |-> ids, raised |-> raised]

\* create of a prescription with its lines; state defaults to 'draft'.
CreatePrescription(lines) ==
    /\ Len(prescriptions) < MaxPrescriptions
    /\ prescriptions' = Append(prescriptions, [state |-> "draft", lines |-> lines])
    /\ rxRes' = RxRes("create", {}, "")
    /\ rxDispensed' = Append(rxDispensed, 0)
    /\ UNCHANGED qtyAvailable

\* action_confirm_prescription (lines 451-462): every line of every
\* prescription of the recordset is compared, on its own, with the
\* qty_available of its medicine; UserError leaves the method, and the states
\* assigned before it are not kept.
action_confirm_prescription(ids) ==
    IF \E id \in ids : \E k \in DOMAIN prescriptions[id].lines :
           LET line == prescriptions[id].lines[k]
           IN  qtyAvailable[line.medicine_id] < line.quantity
    THEN /\ rxRes' = RxRes("action_confirm_prescription", ids, "UserError")
         /\ UNCHANGED <<qtyAvailable, prescriptions, rxDispensed>>
    ELSE /\ prescriptions' =
                [id \in DOMAIN prescriptions |->
                    IF id \in ids THEN [prescriptions[id] EXCEPT !.state = "confirmed"]
                    ELSE prescriptions[id]]
         /\ rxRes' = RxRes("action_confirm_prescription", ids, "")
         /\ UNCHANGED <<qtyAvailable, rxDispensed>>

RECURSIVE DispenseLines(_, _)
\* Lines 469-470: qty_available of the medicine of each line is decreased by
\* the quantity of the line.
DispenseLines(lines, qty) ==
    IF lines = <<>> THEN qty
    ELSE DispenseLines(Tail(lines),
                       [qty EXCEPT ![Head(lines).medicine_id] = @ - Head(lines).quantity])

RECURSIVE DispenseLoop(_, _)
\* Lines 466-470 over the recordset, in id order.
DispenseLoop(todo, qty) ==
    IF todo = <<>> THEN qty
    ELSE DispenseLoop(Tail(todo),
                      IF prescriptions[Head(todo)].state = "confirmed"
                      THEN DispenseLines(prescriptions[Head(todo)].lines, qty)
                      ELSE qty)

\* action_dispense_medicines (lines 464-472).
action_dispense_medicines(ids) ==
    LET qty == DispenseLoop(SortedById(ids), qtyAvailable)
    IN  /\ \A m \in Medicines : qty[m] >= 0 - MaxOverdraw
        /\ qtyAvailable' = qty
        /\ prescriptions' =
               [id \in DOMAIN prescriptions |->
                   IF id \in ids /\ prescriptions[id].state = "confirmed"
                   THEN [prescriptions[id] EXCEPT !.state = "dispensed"]
                   ELSE prescriptions[id]]
        /\ rxRes' = RxRes("action_dispense_medicines", ids, "")
        /\ rxDispensed' =
               [id \in DOMAIN rxDispensed |->
                   IF id \in ids /\ prescriptions[id].state = "confirmed"
                   THEN rxDispensed[id] + 1 ELSE rxDispensed[id]]

\* -------------------------------------------------------- auto_process_orders
\* OdooPythonBasics.py lines 142-168. The orders are kept in a sequence, a
\* record's id being its index; invoice is 'none', 'draft' or 'posted'.

OrderVals ==
    [state : {"draft"}, date_order : {PatientToday - 1, PatientToday},
     amount_total : {0, 100}, auto_invoice : BOOLEAN, invoice : {"none"}]

\* The calls of the loop body that may raise, and "" for none of them.
OrderFailPoints == {"", "action_confirm", "_create_invoices", "action_post"}

\* create of a sale.order.
CreateSaleOrder(vals) ==
    /\ Len(saleOrders) < MaxOrders
    /\ saleOrders' = Append(saleOrders, vals)
    /\ opRes' = [op |-> "create", count |-> 0]

RECURSIVE ProcessOrdersLoop(_, _, _, _)
\* Lines 151-164: the loop over the orders found. failAt gives, for each order,
\* the call that raises for it; the except clause logs and goes on with the
\* next order, and what the calls before the exception did stays done.
ProcessOrdersLoop(todo, ords, failAt, processed_count) ==
    IF todo = <<>> THEN [orders |-> ords, count |-> processed_count]
    ELSE LET i == Head(todo)
             confirmed == [ords EXCEPT ![i].state = "sale"]
             invoiced == [confirmed EXCEPT ![i].invoice = "draft"]
             posted == [confirmed EXCEPT ![i].invoice = "posted"]
         IN  IF failAt[i] = "action_confirm"
             THEN ProcessOrdersLoop(Tail(todo), ords, failAt, processed_count)
             ELSE IF ~ords[i].auto_invoice
             THEN ProcessOrdersLoop(Tail(todo), confirmed, failAt, processed_count + 1)
             ELSE IF failAt[i] = "_create_invoices"
             THEN ProcessOrdersLoop(Tail(todo), confirmed, failAt, processed_count)
             ELSE IF failAt[i] = "action_post"
             THEN ProcessOrdersLoop(Tail(todo), invoiced, failAt, processed_count)
             ELSE ProcessOrdersLoop(Tail(todo), posted, failAt, processed_count + 1)

\* auto_process_orders (lines 142-168): the draft orders dated before now with
\* a positive amount are processed, and processed_count is returned.
auto_process_orders(failAt) ==
    LET orders == {i \in DOMAIN saleOrders :
                      /\ saleOrders[i].state = "draft"
                      /\ saleOrders[i].date_order < today
                      /\ saleOrders[i].amount_total > 0}
        r == ProcessOrdersLoop(SortedById(orders), saleOrders, failAt, 0)
    IN  /\ saleOrders' = r.orders
        /\ opRes' = [op |-> "auto_process_orders", count |-> r.count]

\* ------------------------------------------ execute_all_schools_operation
\* OdooPythonTutorialConsolidated.py lines 16-96 and 298-319. The schools are
\* kept in a sequence, a record's id being its index. results, a dict keyed by
\* school code, is a function over the codes: "" where the dict has no key.

NoResults == [c \in Schools |-> ""]

ExecRes(op, found, raising, results, raised) ==
    [op |-> op, found |-> found, raising |-> raising, results |-> results,
     raised |-> raised]

\* _check_school_code_unique (lines 91-95) on the schools as they would be
\* stored: TRUE when it raises for the school with this id.
check_school_code_unique_off(schools, id) == FALSE

check_school_code_unique(schools, id) ==
    \E j \in DOMAIN schools : j # id /\ schools[j].code = schools[id].code

\* create (id is the next id) and write (id is that of a stored school) of
\* code and is_active; the constraint runs on the school, and a
\* ValidationError leaves the stored schools as they were.
StoreSchool(id, code, is_active) ==
    LET school == [code |-> code, is_active |-> is_active]
        schools == IF id \in DOMAIN consSchools
                   THEN [consSchools EXCEPT ![id] = school]
                   ELSE Append(consSchools, school)
    IN  /\ id \in 1..(Len(consSchools) + 1)
        /\ id <= MaxSchools
        /\ IF check_school_code_unique(schools, id)
           THEN /\ execRes' = ExecRes("school", TRUE, {}, NoResults, "ValidationError")
                /\ UNCHANGED consSchools
           ELSE /\ consSchools' = schools
                /\ execRes' = ExecRes("school", TRUE, {}, NoResults, "")

RECURSIVE AllSchoolsLoop(_, _, _, _)
\* Lines 303-317: the loop over the active schools. found is hasattr(school_env,
\* method_name); the method raises for the schools in raising.
AllSchoolsLoop(todo, results, found, raising) ==
    IF todo = <<>> THEN results
    ELSE LET school == consSchools[Head(todo)]
             value == IF ~found THEN "Method not found"
                      ELSE IF Head(todo) \in raising THEN "Error"
                      ELSE "returned"
         IN  AllSchoolsLoop(Tail(todo), [results EXCEPT ![school.code] = value],
                            found, raising)

\* execute_all_schools_operation (lines 298-319).
execute_all_schools_operation(found, raising) ==
    LET active_schools == {i \in DOMAIN consSchools : consSchools[i].is_active}
    IN  /\ execRes' = ExecRes("execute_all_schools_operation", found, raising,
                              AllSchoolsLoop(SortedById(active_schools), NoResults,
                                             found, raising), "")
        /\ UNCHANGED consSchools

\* ------------------------------------- school.student classes and promotion
\* OdooPythonTutorialSchool.py lines 35-38, 100-110 and 471-523. The classes
\* are a fixed table, a class's id being its index; class_id 0 is no class.
\* Every student belongs to the current academic year.

ClassCodes == << <<"1", "A">>, <<"2", "A">>, <<"3", "A">>, <<"B">> >>

NoClass == 0

AlphaChars == {"A", "B"}

DigitString == <<"0", "1", "2", "3", "4", "5", "6", "7", "8", "9">>

PromoRes(op, count, raised) == [op |-> op, count |-> count, raised |-> raised]

\* _check_roll_number_unique (lines 100-110) for the student with this id among
\* the students as they would be stored: TRUE when it raises.
check_roll_number_unique(students, id) ==
    /\ students[id].roll_number # 0
    /\ \E j \in DOMAIN students :
           /\ j # id
           /\ students[j].class_id = students[id].class_id
           /\ students[j].roll_number = students[id].roll_number

\* create of a student: the constraint runs for the roll number given.
CreateSchStudent(class_id, roll_number, status) ==
    LET students == Append(schStudents,
                           [class_id |-> class_id, roll_number |-> roll_number,
                            status |-> status])
    IN  /\ Len(schStudents) < MaxSchStudents
        /\ IF check_roll_number_unique(students, Len(students))
           THEN /\ promoRes' = PromoRes("create", 0, "ValidationError")
                /\ UNCHANGED schStudents
           ELSE /\ schStudents' = students
                /\ promoRes' = PromoRes("create", 0, "")
        /\ UNCHANGED schYearEnd

\* write on one student of class_id, of roll_number, or of both: the
\* constraint is declared on roll_number (line 100) and runs only when
\* roll_number is among the fields written.
WriteSchStudent(id, fields_written, class_id, roll_number) ==
    LET old == schStudents[id]
        new == [old EXCEPT
                  !.class_id = IF "class_id" \in fields_written
                               THEN class_id ELSE old.class_id,
                  !.roll_number = IF "roll_number" \in fields_written
                                  THEN roll_number ELSE old.roll_number]
        students == [schStudents EXCEPT ![id] = new]
    IN  /\ id \in DOMAIN schStudents
        /\ IF "roll_number" \in fields_written /\ check_roll_number_unique(students, id)
           THEN /\ promoRes' = PromoRes("write", 0, "ValidationError")
                /\ UNCHANGED schStudents
           ELSE /\ schStudents' = students
                /\ promoRes' = PromoRes("write", 0, "")
        /\ UNCHANGED schYearEnd

\* The current academic year is set, with its end_date, or unset.
StoreCurrentYear(end_date) ==
    /\ schYearEnd' = end_date
    /\ promoRes' = PromoRes("year", 0, "")
    /\ UNCHANGED schStudents

RECURSIVE FilterChars(_, _)
\* ''.join(filter(pred, code)) for the characters pred accepts.
FilterChars(code, accepted) ==
    IF code = <<>> THEN <<>>
    ELSE (IF Head(code) \in accepted THEN <<Head(code)>> ELSE <<>>)
             \o FilterChars(Tail(code), accepted)

\* _increment_class_code (lines 513-523): int() of the digits, plus one, str()
\* of it, followed by the letters; the code itself when it has no digit.
increment_class_code(code) ==
    LET numeric_part == FilterChars(code, DigitChars)
        non_numeric_part == FilterChars(code, AlphaChars)
        value == DigitsValue([i \in DOMAIN numeric_part |->
                                 CHOOSE d \in 0..9 : DigitString[d + 1] = numeric_part[i]])
        new_numeric == [i \in DOMAIN Digits(value + 1) |->
                            DigitString[Digits(value + 1)[i] + 1]]
    IN  IF numeric_part # <<>> THEN new_numeric \o non_numeric_part ELSE code

\* _get_next_class (lines 504-511): the first class that has the incremented
\* code, or False (NoClass).
get_next_class(current_class) ==
    IF current_class = NoClass THEN NoClass
    ELSE LET next_class_code == increment_class_code(ClassCodes[current_class])
             found == {c \in DOMAIN ClassCodes : ClassCodes[c] = next_class_code}
         IN  IF found = {} THEN NoClass
             ELSE CHOOSE c \in found : \A o \in found : c <= o

RECURSIVE PromoteLoop(_, _, _)
\* Lines 486-494: the loop over the students found. The write resets the roll
\* number to 0, for which the constraint never raises.
PromoteLoop(todo, students, promoted_count) ==
    IF todo = <<>> THEN [students |-> students, count |-> promoted_count]
    ELSE LET id == Head(todo)
             next_class == get_next_class(students[id].class_id)
         IN  IF next_class # NoClass
             THEN PromoteLoop(Tail(todo),
                              [students EXCEPT ![id].class_id = next_class,
                                               ![id].roll_number = 0],
                              promoted_count + 1)
             ELSE PromoteLoop(Tail(todo), students, promoted_count)

\* auto_promote_students (lines 471-502).
auto_promote_students ==
    IF schYearEnd = NoDate \/ today < schYearEnd
    THEN /\ promoRes' = PromoRes("auto_promote_students", 0, "not yet")
         /\ UNCHANGED <<schStudents, schYearEnd>>
    ELSE LET students_to_promote ==
                 {i \in DOMAIN schStudents : schStudents[i].status = "active"}
             r == PromoteLoop(SortedById(students_to_promote), schStudents, 0)
         IN  /\ schStudents' = r.students
             /\ promoRes' = PromoRes("auto_promote_students", r.count, "")
             /\ UNCHANGED schYearEnd

\* --------------------------------------------------- auto_register_patient
\* PythonCodeHMIS.py lines 206-263. An input record is a dict with a name
\* ("" when missing) and a date_of_birth (NoDate when missing).

RegRes(op, records, type) == [op |-> op, records |-> records, type |-> type]

\* The body of the loop (lines 213-262) for one record: the notification type
\* it returns, and the hmis.patient records stored after it. The validation of line 215
\* and the constraint on date_of_birth that Patient.create runs both raise
\* into the except branch, which returns the error notification.
RegisterOne(record, stored) ==
    IF Len(record.name) = 0 \/ record.date_of_birth = NoDate
    THEN [type |-> "danger", stored |-> stored]
    ELSE IF HMISPatient_check_date_of_birth(record.date_of_birth, today)
    THEN [type |-> "danger", stored |-> stored]
    ELSE [type |-> "success",
          stored |-> Append(stored, [name |-> record.name,
                                         date_of_birth |-> record.date_of_birth])]

\* auto_register_patient (lines 206-263): both branches of the loop body end
\* in a return, so the loop body runs for the first record and the function
\* returns; with no record the function returns None.
auto_register_patient(records) ==
    IF records = <<>>
    THEN /\ regRes' = RegRes("auto_register_patient", records, "none")
         /\ UNCHANGED regPatients
    ELSE LET r == RegisterOne(Head(records), regPatients)
         IN  /\ Len(r.stored) <= MaxRegistered
             /\ regPatients' = r.stored
             /\ regRes' = RegRes("auto_register_patient", records, r.type)

\* ------------------------------------------------ UAF invoice generation
\* LTAOperatorManagementApp.py lines 153-165 (lta.uaf.declaration) and 449-463
\* (the wizard lta.generate.uaf.invoice). A declaration's id is its index.

DeclarationStates == {"draft", "verified", "invoiced", "paid"}

UafRes(op, date_from, date_to, written) ==
    [op |-> op, date_from |-> date_from, date_to |-> date_to, written |-> written]

\* create of a declaration with its period and state.
CreateDeclaration(period_start, period_end, state) ==
    /\ Len(uafDeclarations) < MaxDeclarations
    /\ uafDeclarations' = Append(uafDeclarations,
                                 [period_start |-> period_start,
                                  period_end |-> period_end, state |-> state])
    /\ uafRes' = UafRes("create", NoDate, NoDate, {})

\* write of state on a stored declaration.
WriteDeclarationState(id, state) ==
    /\ id \in DOMAIN uafDeclarations
    /\ uafDeclarations' = [uafDeclarations EXCEPT ![id].state = state]
    /\ uafRes' = UafRes("write", NoDate, NoDate, {})

\* The search domain of line 459 with the state left out.
GenerateDomainAnyState(d, date_from, date_to) ==
    /\ d.period_start >= date_from
    /\ d.period_end <= date_to

\* The search domain of line 459.
GenerateDomain(d, date_from, date_to) ==
    /\ d.period_start >= date_from
    /\ d.period_end <= date_to
    /\ d.state = "verified"

\* GenerateUafInvoiceWizard.action_generate (lines 457-463) on one wizard.
action_generate(date_from, date_to) ==
    LET declarations == {i \in DOMAIN uafDeclarations :
                            GenerateDomain(uafDeclarations[i], date_from, date_to)}
    IN  /\ uafDeclarations' = [i \in DOMAIN uafDeclarations |->
                                  IF i \in declarations
                                  THEN [uafDeclarations[i] EXCEPT !.state = "invoiced"]
                                  ELSE uafDeclarations[i]]
        /\ uafRes' = UafRes("action_generate", date_from, date_to, declarations)

\* ------------------------------------------------ check_hmis_access_rights
\* PythonCodeHMIS.py lines 609-636.

\* access_matrix (lines 617-629).
access_matrix ==
    ("hmis.patient" :>
        [receptionist |-> {"read", "create"},
         nurse |-> {"read", "write"},
         doctor |-> {"read", "write", "create"},
         admin |-> {"read", "write", "create", "unlink"}])
    @@ ("hmis.prescription" :>
        [doctor |-> {"read", "write", "create"},
         pharmacist |-> {"read", "write"},
         admin |-> {"read", "write", "create", "unlink"}])

AccRes(op, model_name, operation, returned) ==
    [op |-> op, model_name |-> model_name, operation |-> operation,
     returned |-> returned]

\* access_matrix.get(model_name, ...) with the row of hmis.patient as default.
model_access_default_patient(model_name) ==
    IF model_name \in DOMAIN access_matrix THEN access_matrix[model_name]
    ELSE access_matrix["hmis.patient"]

\* access_matrix.get(model_name, {}) (line 632): {} is the function of no group.
model_access(model_name) ==
    IF model_name \in DOMAIN access_matrix THEN access_matrix[model_name]
    ELSE <<>>

\* The groups of the user are written.
WriteUserGroups(groups) ==
    /\ userGroups' = groups
    /\ accRes' = AccRes("write", "", "", "None")

\* check_hmis_access_rights (lines 612-636): the loop returns True at the first
\* group that grants the operation; when no group does, the function ends
\* without a return statement and the call yields None.
check_hmis_access_rights(model_name, operation) ==
    LET granting == {group \in userGroups :
                        /\ group \in DOMAIN model_access(model_name)
                        /\ operation \in model_access(model_name)[group]}
    IN  /\ accRes' = AccRes("check_hmis_access_rights", model_name, operation,
                            IF granting # {} THEN "True" ELSE "None")
        /\ UNCHANGED userGroups

\* ------------------------------------------------------------ initial state

AgeUnread == AgeText("unread", 0, 0, 0)

InitBase ==
    /\ ageOut = AgeUnread
    /\ patients = {}
    /\ patientSeq = NoSequence
    /\ patientNextId = 1
    /\ issued = <<>>
    /\ deleted = FALSE
    /\ restartAt = 0
    /\ pRes = PRes("none", 0, NoVals, "", "")
    /\ beds = {}
    /\ bedNextId = 1
    /\ bRes = BRes("none", {}, "")
    /\ bBatch = <<>>
    /\ dated = [m \in DatedModels |-> {}]
    /\ datedNextId = 1
    /\ dRes = DRes("none", "", NoDate, "")
    /\ activeStudents = Students
    /\ attendance = EmptyTable
    /\ consAttendance = EmptyTable
    /\ aRes = ARes("none", 0, FALSE)
    /\ aFailing = {}
    /\ appointments = {}
    /\ inactivePatients = {}
    /\ activities = [k \in ActKeys |-> 0]
    /\ fRes = 0
    /\ saRecords = <<>>
    /\ saActivities = [i \in 1..MaxActionRecords |-> 0]
    /\ saRes = SARes("none", <<>>, <<>>, "")
    /\ consStudents = <<>>
    /\ consCreatedIds = <<>>
    /\ ltaProfiles = {}
    /\ ltaLicenses = {}
    /\ ltaDeclared = {}
    /\ ltaNextId = [profile |-> 1, license |-> 1]
    /\ ltaRes = LtaRes("none", {}, "")
    /\ medicalRecords = [i \in 1..MaxAppointments |-> 0]
    /\ apRes = APRes("none", {})
    /\ qtyAvailable = [m \in Medicines |-> InitialStock]
    /\ prescriptions = <<>>
    /\ rxRes = RxRes("none", {}, "")
    /\ rxDispensed = <<>>
    /\ saleOrders = <<>>
    /\ opRes = [op |-> "none", count |-> 0]
    /\ consSchools = <<>>
    /\ execRes = ExecRes("none", TRUE, {}, NoResults, "")
    /\ schStudents = <<>>
    /\ schYearEnd = NoDate
    /\ promoRes = PromoRes("none", 0, "")
    /\ regPatients = <<>>
    /\ regRes = RegRes("none", <<>>, "none")
    /\ uafDeclarations = <<>>
    /\ uafRes = UafRes("none", NoDate, NoDate, {})
    /\ userGroups = {}
    /\ accRes = AccRes("none", "", "", "None")

varsAge == <<today, ageDob, ageOut>>
varsPatient == <<patients, patientSeq, patientNextId, issued, deleted, restartAt, pRes>>
varsBed == <<beds, bedNextId, bRes, bBatch>>
varsDated == <<dated, datedNextId, dRes>>
varsAttendance == <<activeStudents, attendance, consAttendance, aRes, aFailing>>
varsFollowUp == <<appointments, inactivePatients, activities, fRes>>
varsServerAction == <<saRecords, saActivities, saRes>>

varsConsStudent == <<consStudents, consCreatedIds>>
varsLta == <<ltaProfiles, ltaLicenses, ltaDeclared, ltaNextId, ltaRes>>
varsAppointment == <<medicalRecords, apRes>>
varsPrescription == <<qtyAvailable, prescriptions, rxRes, rxDispensed>>

varsOrders == <<saleOrders, opRes>>

varsAllSchools == <<consSchools, execRes>>
varsPromotion == <<schStudents, schYearEnd, promoRes>>
varsRegister == <<regPatients, regRes>>
varsUaf == <<uafDeclarations, uafRes>>
varsAccess == <<userGroups, accRes>>

\* The variables of the subsystems specified up to the follow-up job.
varsCore == <<varsAge, varsPatient, varsBed, varsDated, varsAttendance, varsFollowUp>>

\* The variables of the subsystems from the server action to the prescriptions.
varsMid ==
    <<varsServerAction, varsConsStudent, varsLta, varsAppointment, varsPrescription>>

\* The variables of the scheduled jobs, wizards and helper methods, and what
\* the specification of each of them leaves unchanged.
varsLate ==
    <<varsOrders, varsAllSchools, varsPromotion, varsRegister, varsUaf, varsAccess>>

othersOrders ==
    <<varsCore, varsMid, varsAllSchools, varsPromotion, varsRegister, varsUaf, varsAccess>>
othersAllSchools ==
    <<varsCore, varsMid, varsOrders, varsPromotion, varsRegister, varsUaf, varsAccess>>
othersPromotion ==
    <<varsCore, varsMid, varsOrders, varsAllSchools, varsRegister, varsUaf, varsAccess>>
othersRegister ==
    <<varsCore, varsMid, varsOrders, varsAllSchools, varsPromotion, varsUaf, varsAccess>>
othersUaf ==
    <<varsCore, varsMid, varsOrders, varsAllSchools, varsPromotion, varsRegister, varsAccess>>
othersAccess ==
    <<varsCore, varsMid, varsOrders, varsAllSchools, varsPromotion, varsRegister, varsUaf>>

\* The variables of the subsystems specified after the follow-up job.
varsExt ==
    <<varsServerAction, varsConsStudent, varsLta, varsAppointment, varsPrescription,
      varsLate>>

vars == <<varsAge, varsPatient, varsBed, varsDated, varsAttendance, varsFollowUp, varsExt>>

\* --------------------------------------------- specification of the age display
\* The record's date_of_birth and the current date are drawn from the calendar;
\* reading the computed field runs _compute_age_display.

InitAge ==
    /\ today \in 0..MaxOrdinal
    /\ ageDob \in {NoDate} \cup 0..MaxOrdinal
    /\ InitBase

ReadAge ==
    /\ ageOut' = compute_age_display(ageDob, today)
    /\ UNCHANGED <<today, ageDob>>
    /\ UNCHANGED <<varsPatient, varsBed, varsDated, varsAttendance, varsFollowUp, varsExt>>

NextAge == ReadAge

SpecAge == InitAge /\ [][NextAge]_vars

\* ------------------------------- specification of hospital.patient identifiers
\* create with and without a contact number and a caller's patient_id, writes of
\* contact_number, unlink.

IdVals ==
    [name : Names, contact_number : {""} \cup Contacts, date_of_birth : {NoDate},
     patient_id : {PidAbsent, PidCustom}]

InitPatient ==
    /\ today = PatientToday
    /\ ageDob = NoDate
    /\ InitBase

CreateAny ==
    /\ \E vals \in IdVals : CreatePatient(vals)
    /\ UNCHANGED <<varsAge, varsBed, varsDated, varsAttendance, varsFollowUp, varsExt>>

WriteContact ==
    /\ \E p \in patients : \E c \in {""} \cup Contacts :
           WritePatient(p.id, "contact_number", c)
    /\ UNCHANGED <<varsAge, varsBed, varsDated, varsAttendance, varsFollowUp, varsExt>>

UnlinkAny ==
    /\ \E ids \in SUBSET {p.id : p \in patients} : UnlinkPatients(ids)
    /\ UNCHANGED <<varsAge, varsBed, varsDated, varsAttendance, varsFollowUp, varsExt>>

NextPatient == CreateAny \/ WriteContact \/ UnlinkAny

SpecPatient == InitPatient /\ [][NextPatient]_vars

\* ---------------------------- specification of hospital.patient dates of birth
\* create and write with dates of birth before, on and after the current date.

DobChoices == {PatientToday - DobSpread, PatientToday, PatientToday + DobSpread}

DobVals ==
    [name : {"Asha"}, contact_number : {"", "900"}, date_of_birth : DobChoices,
     patient_id : {PidAbsent, PidNew}]

CreateDated ==
    /\ \E vals \in DobVals : CreatePatient(vals)
    /\ UNCHANGED <<varsAge, varsBed, varsDated, varsAttendance, varsFollowUp, varsExt>>

WriteDob ==
    /\ \E p \in patients : \E d \in DobChoices :
           WritePatient(p.id, "date_of_birth", d)
    /\ UNCHANGED <<varsAge, varsBed, varsDated, varsAttendance, varsFollowUp, varsExt>>

NextPatientDob == CreateDated \/ WriteDob

SpecPatientDob == InitPatient /\ [][NextPatientDob]_vars

\* --------------------------------------- specification of hospital.icu.bed
\* create of batches of beds, writes of status, unlink of sets of beds. Beds are
\* created available; the other statuses are reached by writes.

BedVals == [name : BedNames, status : {"available"}]

BedBatches == UNION {[1..n -> BedVals] : n \in 1..MaxBedBatch}

CreateBedBatch ==
    /\ \E vals_list \in BedBatches : CreateBeds(vals_list)
    /\ UNCHANGED <<varsAge, varsPatient, varsDated, varsAttendance, varsFollowUp, varsExt>>

WriteStatus ==
    /\ \E b \in beds : \E st \in BedStatuses : WriteBedStatus(b.id, st)
    /\ UNCHANGED <<varsAge, varsPatient, varsDated, varsAttendance, varsFollowUp, varsExt>>

UnlinkBedSet ==
    /\ \E ids \in SUBSET {b.id : b \in beds} : UnlinkBeds(ids)
    /\ UNCHANGED <<varsAge, varsPatient, varsDated, varsAttendance, varsFollowUp, varsExt>>

NextBed == CreateBedBatch \/ WriteStatus \/ UnlinkBedSet

SpecBed == InitPatient /\ [][NextBed]_vars

\* ------------------- specification of the date_of_birth constraint
\* create and write of hmis.patient and school.student records with dates of
\* birth around the current date, which moves forward.

DatedDobs == (PatientToday - 1)..(PatientToday + MaxDayAdvance)

CreateDatedAny ==
    /\ \E m \in DatedModels : \E d \in DatedDobs : CreateDatedRecord(m, d)
    /\ UNCHANGED <<varsAge, varsPatient, varsBed, varsAttendance, varsFollowUp, varsExt>>

WriteDatedAny ==
    /\ \E m \in DatedModels : \E r \in dated[m] : \E d \in DatedDobs :
           WriteDatedDob(m, r.id, d)
    /\ UNCHANGED <<varsAge, varsPatient, varsBed, varsAttendance, varsFollowUp, varsExt>>

AdvanceDay ==
    /\ today < PatientToday + MaxDayAdvance
    /\ today' = today + 1
    /\ dRes' = DRes("tick", "", NoDate, "")
    /\ UNCHANGED <<ageDob, ageOut, dated, datedNextId, varsPatient, varsBed>>
    /\ UNCHANGED <<varsAttendance, varsFollowUp, varsExt>>

NextDated == CreateDatedAny \/ WriteDatedAny \/ AdvanceDay

SpecDated == InitPatient /\ [][NextDated]_vars

\* ------------------------------------ specification of the attendance jobs
\* The jobs run one after the other, on the same date and on later dates;
\* students change status between the runs. A job reads and writes only the
\* table of its own model, so the runs on school.attendance are explored with
\* consolidated.attendance empty, and the other way round.

\* The current date moves to the next day.
NextDay ==
    /\ today < PatientToday + MaxJobDays
    /\ today' = today + 1
    /\ UNCHANGED <<ageDob, ageOut, varsPatient, varsBed, varsDated>>
    /\ UNCHANGED <<varsAttendance, varsFollowUp, varsExt>>

BulkRecordsets == UNION {[1..n -> Students] : n \in 0..MaxBulk}

UNCHANGED_ButAttendance ==
    UNCHANGED <<varsAge, varsPatient, varsBed, varsDated, varsFollowUp, varsExt>>

RunAutoGenerate ==
    /\ consAttendance = EmptyTable
    /\ \E failing \in SUBSET Students : auto_generate_daily_attendance(failing)
    /\ UNCHANGED_ButAttendance

RunMarkBulk ==
    /\ consAttendance = EmptyTable
    /\ \E records \in BulkRecordsets : \E failing \in SUBSET Students :
           mark_bulk_attendance(records, failing)
    /\ UNCHANGED_ButAttendance

RunConsolidatedAutoGenerate ==
    /\ attendance = EmptyTable
    /\ \E school_id \in Schools \cup {NoSchool} :
       \E failing \in SUBSET Students :
           consolidated_auto_generate_daily_attendance(school_id, failing)
    /\ UNCHANGED_ButAttendance

WriteStudentStatus ==
    /\ \E s \in Students : \E isActive \in BOOLEAN : SetStudentStatus(s, isActive)
    /\ UNCHANGED_ButAttendance

NextAttendance ==
    \/ RunAutoGenerate
    \/ RunMarkBulk
    \/ RunConsolidatedAutoGenerate
    \/ WriteStudentStatus
    \/ NextDay

SpecAttendance == InitPatient /\ [][NextAttendance]_vars

\* -------------------------------------- specification of the follow-up job
\* Appointments are stored, patients change status, the job runs any number of
\* times on a day, and the days pass.

UNCHANGED_ButFollowUp ==
    UNCHANGED <<varsAge, varsPatient, varsBed, varsDated, varsAttendance, varsExt>>

StoreAppointment ==
    /\ \E patient \in HmisPatients : \E st \in AppointmentStates :
       \E d \in AppointmentDates : CreateAppointment(patient, st, d)
    /\ UNCHANGED_ButFollowUp

WritePatientStatus ==
    /\ \E patient \in HmisPatients : \E isActive \in BOOLEAN :
           SetPatientStatus(patient, isActive)
    /\ UNCHANGED_ButFollowUp

RunFollowUp ==
    /\ auto_follow_up_patients
    /\ UNCHANGED_ButFollowUp

NextFollowUp == StoreAppointment \/ WritePatientStatus \/ RunFollowUp \/ NextDay

SpecFollowUp == InitPatient /\ [][NextFollowUp]_vars

\* What the specification of each later subsystem leaves unchanged.
othersServerAction ==
    <<varsCore, varsConsStudent, varsLta, varsAppointment, varsPrescription, varsLate>>
othersConsStudent ==
    <<varsCore, varsServerAction, varsLta, varsAppointment, varsPrescription, varsLate>>
othersLta ==
    <<varsCore, varsServerAction, varsConsStudent, varsAppointment, varsPrescription,
      varsLate>>
othersAppointment ==
    <<varsAge, varsPatient, varsBed, varsDated, varsAttendance, varsServerAction,
      varsConsStudent, varsLta, varsPrescription, varsLate>>
othersPrescription ==
    <<varsCore, varsServerAction, varsConsStudent, varsLta, varsAppointment, varsLate>>

\* ------------------------------------ specification of the server action
\* Records are stored, and the action runs on any set of them, in id order,
\* any number of times.

StoreActionRecord ==
    /\ \E vals \in ActionRecordVals : CreateActionRecord(vals)
    /\ UNCHANGED othersServerAction

RunServerAction ==
    /\ \E ids \in SUBSET DOMAIN saRecords : advanced_server_action(SortedById(ids))
    /\ UNCHANGED othersServerAction

NextServerAction == StoreActionRecord \/ RunServerAction

SpecServerAction == InitPatient /\ [][NextServerAction]_vars

\* ------------------------------- specification of the date-derived age
\* hmis.patient and school.student records are created and written with dates
\* of birth about a year before the current date, which moves forward.

AgeDobs == {PatientToday - DaysPerYear, PatientToday - DaysPerYear + 1}

CreateAged ==
    /\ \E m \in DatedModels : \E d \in AgeDobs : CreateDatedRecord(m, d)
    /\ UNCHANGED <<varsAge, varsPatient, varsBed, varsAttendance, varsFollowUp, varsExt>>

WriteAged ==
    /\ \E m \in DatedModels : \E r \in dated[m] : \E d \in AgeDobs :
           WriteDatedDob(m, r.id, d)
    /\ UNCHANGED <<varsAge, varsPatient, varsBed, varsAttendance, varsFollowUp, varsExt>>

NextDatedAge == CreateAged \/ WriteAged \/ AdvanceDay

SpecDatedAge == InitPatient /\ [][NextDatedAge]_vars

\* ------------------------------ specification of consolidated.student
\* Students are created and their school and roll number are written.

StoreConsolidatedStudent ==
    /\ \E school_id \in Schools : \E roll \in 0..MaxRoll :
           CreateConsolidatedStudent(school_id, roll)
    /\ UNCHANGED othersConsStudent

WriteSchoolAndRoll ==
    /\ \E id \in DOMAIN consStudents : \E school_id \in Schools :
       \E roll \in 0..MaxRoll : WriteConsolidatedStudent(id, school_id, roll)
    /\ UNCHANGED othersConsStudent

NextConsStudent == StoreConsolidatedStudent \/ WriteSchoolAndRoll

SpecConsStudent == InitPatient /\ [][NextConsStudent]_vars

\* ------------------- specification of the operator profiles and licenses
\* Profiles, licenses and declarations are created, licenses move between
\* profiles, and sets of profiles are deleted.

StoreProfile == LtaCreateProfile /\ UNCHANGED othersLta

StoreLicense ==
    /\ \E profile \in ltaProfiles : LtaCreateLicense(profile)
    /\ UNCHANGED othersLta

MoveLicense ==
    /\ \E l \in ltaLicenses : \E profile \in ltaProfiles :
           LtaWriteLicenseOperator(l.id, profile)
    /\ UNCHANGED othersLta

SetDeclared ==
    /\ \E profile \in ltaProfiles : \E isDeclared \in BOOLEAN :
           LtaSetDeclared(profile, isDeclared)
    /\ UNCHANGED othersLta

UnlinkProfileSet ==
    /\ \E ids \in SUBSET ltaProfiles : LtaUnlinkProfiles(ids)
    /\ UNCHANGED othersLta

NextLta == StoreProfile \/ StoreLicense \/ MoveLicense \/ SetDeclared \/ UnlinkProfileSet

SpecLta == InitPatient /\ [][NextLta]_vars

\* ------------------------- specification of the appointment action methods
\* Appointments are created in the default state 'draft', and the action
\* methods are called on any set of them, in any order.

StoreDraftAppointment ==
    /\ CreateAppointment(1, "draft", today)
    /\ apRes' = APRes("create", {})
    /\ UNCHANGED medicalRecords
    /\ UNCHANGED othersAppointment

RunAppointmentAction ==
    /\ \E ids \in SUBSET {a.id : a \in appointments} :
           /\ ids # {}
           /\ \/ action_confirm(ids)
              \/ action_start_consultation(ids)
              \/ action_complete(ids)
              \/ action_cancel(ids)
    /\ UNCHANGED othersAppointment

NextAppointment == StoreDraftAppointment \/ RunAppointmentAction

SpecAppointment == InitPatient /\ [][NextAppointment]_vars

\* ----------------------------------- specification of the prescriptions
\* Prescriptions are created with lines that may name the same medicine, and
\* sets of them are confirmed and dispensed in any order.

StorePrescription ==
    /\ \E lines \in PrescriptionLines : CreatePrescription(lines)
    /\ UNCHANGED othersPrescription

ConfirmPrescriptions ==
    /\ \E ids \in SUBSET DOMAIN prescriptions :
           ids # {} /\ action_confirm_prescription(ids)
    /\ UNCHANGED othersPrescription

DispensePrescriptions ==
    /\ \E ids \in SUBSET DOMAIN prescriptions :
           ids # {} /\ action_dispense_medicines(ids)
    /\ UNCHANGED othersPrescription

NextPrescription == StorePrescription \/ ConfirmPrescriptions \/ DispensePrescriptions

SpecPrescription == InitPatient /\ [][NextPrescription]_vars

\* ------------------------------- specification of auto_process_orders
\* Orders are stored, and the job runs any number of times, with any of the
\* calls it makes failing for any of the orders.

NextOrders ==
    /\ \/ \E vals \in OrderVals : CreateSaleOrder(vals)
       \/ \E failAt \in [1..MaxOrders -> OrderFailPoints] : auto_process_orders(failAt)
    /\ UNCHANGED othersOrders

SpecOrders == InitPatient /\ [][NextOrders]_vars

\* ------------------- specification of execute_all_schools_operation
\* Schools are created and written, active or not, and the operation runs with
\* a method that exists or not and that raises for any of the schools.

NextAllSchools ==
    /\ \/ \E id \in 1..MaxSchools : \E code \in Schools : \E is_active \in BOOLEAN :
              StoreSchool(id, code, is_active)
       \/ \E found \in BOOLEAN : \E raising \in SUBSET (1..MaxSchools) :
              execute_all_schools_operation(found, raising)
    /\ UNCHANGED othersAllSchools

SpecAllSchools == InitPatient /\ [][NextAllSchools]_vars

\* ------------------------- specification of school.student promotion
\* Students are created and written, the current year is set to end before,
\* on or after today, and the promotion job runs any number of times.

NextPromotion ==
    /\ \/ \E class_id \in {NoClass} \cup DOMAIN ClassCodes :
          \E roll_number \in 0..MaxRoll : \E status \in {"active", "graduated"} :
              CreateSchStudent(class_id, roll_number, status)
       \/ \E id \in 1..MaxSchStudents :
          \E fields_written \in (SUBSET {"class_id", "roll_number"}) \ {{}} :
          \E class_id \in {NoClass} \cup DOMAIN ClassCodes :
          \E roll_number \in 0..MaxRoll :
              WriteSchStudent(id, fields_written, class_id, roll_number)
       \/ \E end_date \in {NoDate, today - 1, today, today + 1} :
              StoreCurrentYear(end_date)
       \/ auto_promote_students
    /\ UNCHANGED othersPromotion

SpecPromotion == InitPatient /\ [][NextPromotion]_vars

\* ------------------------------- specification of auto_register_patient
\* The action is called with no record, one record or several, each with or
\* without a name and with no date of birth, a past one or a future one.

RegRecords ==
    [name : {<<>>} \cup {<<"A">>, <<"R">>},
     date_of_birth : {NoDate, PatientToday - 1, PatientToday + 1}]

NextRegister ==
    /\ \E n \in 0..MaxRegBatch : \E records \in [1..n -> RegRecords] :
           auto_register_patient(records)
    /\ UNCHANGED othersRegister

SpecRegister == InitPatient /\ [][NextRegister]_vars

\* ------------------------------ specification of UAF invoice generation
\* Declarations are created in any state with any period, their state is
\* written, and the wizard runs with any dates, any number of times.

UafDates == {PatientToday, PatientToday + 1}

NextUaf ==
    /\ \/ \E period_start \in UafDates : \E period_end \in UafDates :
          \E state \in DeclarationStates :
              CreateDeclaration(period_start, period_end, state)
       \/ \E id \in 1..MaxDeclarations : \E state \in DeclarationStates :
              WriteDeclarationState(id, state)
       \/ \E date_from \in UafDates : \E date_to \in UafDates :
              action_generate(date_from, date_to)
    /\ UNCHANGED othersUaf

SpecUaf == InitPatient /\ [][NextUaf]_vars

\* ---------------------------- specification of check_hmis_access_rights
\* The user is put in any set of groups, among them one the matrix does not
\* name, and the check is called for the models of the matrix and for another
\* model, with every operation.

GroupNames == {"receptionist", "nurse", "doctor", "pharmacist", "admin", "portal"}
ModelNames == {"hmis.patient", "hmis.prescription", "hmis.appointment"}
Operations == {"read", "write", "create", "unlink"}

NextAccess ==
    /\ \/ \E groups \in SUBSET GroupNames : WriteUserGroups(groups)
       \/ \E model_name \in ModelNames : \E operation \in Operations :
              check_hmis_access_rights(model_name, operation)
    /\ UNCHANGED othersAccess

SpecAccess == InitPatient /\ [][NextAccess]_vars

\* ------------------------------------------------- the whole program
Init == InitPatient

Next ==
    \/ NextAge
    \/ NextPatient
    \/ NextPatientDob
    \/ NextBed
    \/ NextDated
    \/ NextAttendance
    \/ NextFollowUp
    \/ NextServerAction
    \/ NextDatedAge
    \/ NextConsStudent
    \/ NextLta
    \/ NextAppointment
    \/ NextPrescription
    \/ NextOrders
    \/ NextAllSchools
    \/ NextPromotion
    \/ NextRegister
    \/ NextUaf
    \/ NextAccess

Spec == Init /\ [][Next]_vars

\* ------------------------------------------------------------------ claims

\* C1: with no patient ever deleted, the patient_id values of the records
\* created without a caller-supplied patient_id are pairwise distinct and their
\* numeric parts strictly increase in creation order.
C1_IdsDistinctIncreasing ==
    ~deleted =>
        \A p, q \in patients :
            (p.auto /\ q.auto /\ p.id < q.id) =>
                /\ p.patient_id # q.patient_id
                /\ NumericPart(p.patient_id) < NumericPart(q.patient_id)

C1_Witness ==
    /\ ~deleted
    /\ \E p, q \in patients : p.auto /\ q.auto /\ p.id < q.id

\* C2 as stated: every number handed out by the 'hospital.patient' counter is
\* strictly greater than every number it handed out before, those of deleted
\* patients included.
C2_IssuedStrictlyIncreasing ==
    \A i, j \in DOMAIN issued : i < j => issued[i] < issued[j]

\* C2 as amended: every number handed out by the counter is strictly greater
\* than every number it handed out since the last create that found no
\* patient stored; such a create restarts the counter at 1.
C2_IncreasingSinceRestart ==
    /\ \A i, j \in DOMAIN issued : (restartAt < i /\ i < j) => issued[i] < issued[j]
    /\ restartAt < Len(issued) => issued[restartAt + 1] = 1

C2_Witness ==
    /\ deleted
    /\ restartAt > 0
    /\ Len(issued) >= restartAt + 2

\* C3: a create whose non-empty contact_number is that of a stored patient
\* raises a validation error naming a stored patient with that contact number,
\* adds no patient and does not advance the 'hospital.patient' sequence.
C3_DuplicateContactRejected ==
    [][(/\ pRes'.op = "create"
        /\ pRes'.vals.contact_number # ""
        /\ \E p \in patients : p.contact_number = pRes'.vals.contact_number)
       => (/\ pRes'.raised = "ValidationError"
           /\ \E p \in patients : /\ p.contact_number = pRes'.vals.contact_number
                                  /\ p.name = pRes'.msgName
           /\ patients' = patients
           /\ patientSeq' = patientSeq
           /\ issued' = issued)]_vars

C3_Witness ==
    /\ pRes.op = "create"
    /\ pRes.raised = "ValidationError"
    /\ \E p \in patients : p.contact_number = pRes.vals.contact_number
                           /\ p.name = pRes.msgName /\ p.name # pRes.vals.name

AddMonths(n, k) ==
    LET c == Civil(n)
        mi == (c.month - 1) + k
        y == c.year + (mi \div 12)
        m == (mi % 12) + 1
        d == IF c.day <= DaysInMonth(y, m) THEN c.day ELSE DaysInMonth(y, m)
    IN  DateCtor(y, m, d)

AddYMD(n, y, m, d) == AddMonths(n, 12 * y + m) + d

\* C8: for a date of birth on or before today, the age display holds years Y,
\* months M in 0..11 and days D >= 0 such that the date of birth advanced by
\* Y years, M months and D days is today.
C8_AgeDecomposition ==
    (ageOut # AgeUnread /\ ageDob # NoDate /\ ageDob <= today) =>
        /\ ageOut.kind = "age"
        /\ ageOut.b \in 0..11
        /\ ageOut.c >= 0
        /\ AddYMD(ageDob, ageOut.a, ageOut.b, ageOut.c) = today

\* C4: unlink on a set of beds removes every bed of the set when none of them
\* is booked; when one of them is booked it raises a validation error and
\* removes none, the available beds of the set included.
C4_UnlinkAllOrNothing ==
    [][bRes'.op = "unlink" =>
          IF \E b \in bRes'.recs : b.status = "booked"
          THEN bRes'.raised = "ValidationError" /\ beds' = beds
          ELSE bRes'.raised = "" /\ beds' = beds \ bRes'.recs]_vars

C4_Witness ==
    /\ bRes.op = "unlink"
    /\ bRes.raised = "ValidationError"
    /\ \E b, c \in bRes.recs : b.status = "available" /\ c.status = "booked" /\ b.id < c.id
    /\ bRes.recs \subseteq beds

\* C5: unlink of a set that holds an occupied bed is rejected and the bed
\* stays stored.
C5_OccupiedNotDeleted ==
    (bRes.op = "unlink" /\ \E b \in bRes.recs : b.status = "occupied") =>
        /\ bRes.raised = "ValidationError"
        /\ bRes.recs \subseteq beds

\* C6: a create or a write of an hmis.patient or a school.student that sets a
\* date_of_birth after the current date raises a validation error and leaves
\* the stored records as they were, and no stored record of either model has a
\* date_of_birth after the current date.
C6_DobNotInFuture ==
    /\ [](\A m \in DatedModels : \A r \in dated[m] : r.date_of_birth <= today)
    /\ [][(dRes'.op \in {"create", "write"} /\ dRes'.date_of_birth > today)
          => (dRes'.raised = "ValidationError" /\ dated' = dated)]_vars

C6_Witness ==
    /\ dRes.op = "write"
    /\ dRes.raised = "ValidationError"
    /\ dRes.model = "school.student"
    /\ today > PatientToday
    /\ \E r \in dated["school.student"] : r.date_of_birth = today
    /\ \E r \in dated["hmis.patient"] : r.date_of_birth > PatientToday

\* C9: after any runs of auto_generate_daily_attendance and
\* mark_bulk_attendance (and of the consolidated job), one after the other,
\* each student has at most one attendance record for each date.
C9_OneRecordPerStudentAndDate ==
    \A s \in Students : \A d \in JobDates :
        /\ RecordsOf(attendance, s, d) <= 1
        /\ RecordsOf(consAttendance, s, d) <= 1

C9_Witness ==
    /\ aRes = ARes("auto_generate", 0, FALSE)
    /\ activeStudents = Students
    /\ \E s \in Students : attendance[<<s, today, "present">>] = 1
    /\ \E s \in Students : attendance[<<s, today, "absent">>] = 1

\* C10: the appointments that got a follow-up activity in one run of
\* auto_follow_up_patients get no second one from another run in the same
\* period (on the same day).
C10_NoSecondFollowUp ==
    \A k \in ActKeys : activities[k] <= 1

\* C11: in a run of auto_generate_daily_attendance where creating the record
\* of some student fails, every other active student that had no record for
\* today has one after the run.
C11_FailureSkipsOneStudent ==
    aRes.op = "auto_generate" =>
        \A s \in activeStudents \ aFailing : Existing(attendance, s, today)

\* C12: when the advanced server action returns its error notification, no
\* record of the batch has been modified and no activity has been created.
C12_ErrorLeavesNothingDone ==
    [][(saRes'.op = "action" /\ saRes'.notification = "Error")
       => (saRecords' = saRecords /\ saActivities' = saActivities)]_vars

\* C13: create on a batch of bed values raises a validation error and stores
\* no bed of the batch when a name of the batch is missing, empty, purely
\* numeric or the name of a stored bed; otherwise it stores one bed for every
\* value of the batch.
C13_CreateBatchAllOrNothing ==
    [][bRes'.op = "create" =>
          IF \E i \in DOMAIN bBatch' :
                 \/ Len(bBatch'[i]) = 0
                 \/ IsNumeric(bBatch'[i])
                 \/ \E b \in beds : b.name = bBatch'[i]
          THEN bRes'.raised = "ValidationError" /\ beds' = beds
          ELSE /\ bRes'.raised = ""
               /\ beds \subseteq beds'
               /\ Cardinality(beds' \ beds) = Len(bBatch')
               /\ \A i \in DOMAIN bBatch' :
                      \E b \in beds' \ beds :
                          b.id = bedNextId + i - 1 /\ b.name = bBatch'[i]]_vars

C13_Witness ==
    /\ bRes.op = "create"
    /\ bRes.raised = "ValidationError"
    /\ Len(bBatch) = 2
    /\ Len(bBatch[1]) > 0 /\ ~IsNumeric(bBatch[1])
    /\ \A b \in beds : b.name # bBatch[1]
    /\ \E b \in beds : b.name = bBatch[2]

\* C14: the student_id of a consolidated.student is the one it was created
\* with, whatever writes were made to its school_id or school_roll_number.
C14_StudentIdImmutable ==
    \A id \in DOMAIN consStudents : consStudents[id].student_id = consCreatedIds[id]

\* C15: the age read from an hmis.patient is the number of days between its
\* date_of_birth and the current date, integer-divided by 365, also after the
\* current date has advanced with no write to the patient.
C15_AgeFollowsToday ==
    \A r \in dated["hmis.patient"] :
        r.age = (today - r.date_of_birth) \div DaysPerYear

\* C16: a step that deletes operator profiles also deletes every lta.license
\* that referred to one of them, and in every state each stored lta.license
\* refers to a stored operator profile.
C16_LicensesCascade ==
    /\ [](\A l \in ltaLicenses : l.operator_profile_id \in ltaProfiles)
    /\ [][\A l \in ltaLicenses :
              l.operator_profile_id \in ltaProfiles \ ltaProfiles'
                  => l \notin ltaLicenses']_vars

C16_Witness ==
    /\ ltaRes.op = "unlink_profile"
    /\ ltaRes.raised = ""
    /\ ltaNextId.license > Cardinality(ltaLicenses) + 1
    /\ ltaLicenses # {}
    /\ ltaProfiles # {}

\* The state changes C17 allows to each action method.
C17_Edges(op) ==
    IF op = "action_confirm" THEN {<<"draft", "confirmed">>}
    ELSE IF op = "action_start_consultation" THEN {<<"confirmed", "in_consultation">>}
    ELSE IF op = "action_complete" THEN {<<"in_consultation", "done">>}
    ELSE IF op = "action_cancel"
         THEN {<<"draft", "cancelled">>, <<"confirmed", "cancelled">>}
    ELSE {}

\* C17: an action method moves the appointments it is called on along
\* draft->confirmed (action_confirm), confirmed->in_consultation
\* (action_start_consultation), in_consultation->done (action_complete),
\* draft->cancelled and confirmed->cancelled (action_cancel); an appointment in
\* any other state, or not in the set, keeps its state, and the states done
\* and cancelled are never left.
C17_StateMachine ==
    [][apRes'.op \in {"action_confirm", "action_start_consultation",
                      "action_complete", "action_cancel"} =>
          \A a \in appointments :
              \E b \in appointments' :
                  /\ b.id = a.id
                  /\ b.state # a.state =>
                         /\ a.id \in apRes'.ids
                         /\ <<a.state, b.state>> \in C17_Edges(apRes'.op)
                         /\ a.state \notin {"done", "cancelled"}
                  /\ (a.id \in apRes'.ids
                      /\ \E e \in C17_Edges(apRes'.op) : e[1] = a.state)
                         => <<a.state, b.state>> \in C17_Edges(apRes'.op)]_vars

C17_Witness ==
    /\ apRes.op = "action_cancel"
    /\ Cardinality(apRes.ids) = 2
    /\ \E a, b \in appointments :
           /\ a.id \in apRes.ids /\ b.id \in apRes.ids
           /\ a.state = "done" /\ b.state = "cancelled"

\* C18: a call of action_complete on a set of appointments creates exactly
\* one hmis.medical.record for each appointment of the set that was
\* in_consultation and none for the other appointments.
C18_OneRecordPerCompleted ==
    [][apRes'.op = "action_complete" =>
          \A a \in appointments :
              medicalRecords'[a.id] =
                  medicalRecords[a.id]
                  + (IF a.id \in apRes'.ids /\ a.state = "in_consultation"
                     THEN 1 ELSE 0)]_vars

\* C19: _compute_age_display completes and assigns an age text for every
\* date_of_birth on or before today, a today in January with a day of month
\* smaller than that of the date of birth included.
C19_AgeDisplayCompletes ==
    (ageOut # AgeUnread /\ ageDob # NoDate /\ ageDob <= today) =>
        ageOut.kind # "ValueError"

\* C20: after any sequence of action_confirm_prescription and
\* action_dispense_medicines calls, the available quantity of every medicine
\* is at or above zero.
C20_StockNeverNegative ==
    \A m \in Medicines : qtyAvailable[m] >= 0

\* C21: over the lifetime of a prescription the quantities of its lines are
\* subtracted from the stock at most once, whatever action methods are called
\* after it has reached 'dispensed'.
C21_DispensedAtMostOnce ==
    \A id \in DOMAIN rxDispensed : rxDispensed[id] <= 1

\* C22: the value returned by auto_process_orders is the number of orders
\* whose state the run changed, also when the creation or the posting of the
\* invoice fails for an order the run has confirmed.
C22_CountIsOrdersChanged ==
    [][opRes'.op = "auto_process_orders" =>
          opRes'.count =
              Cardinality({i \in DOMAIN saleOrders :
                              saleOrders'[i].state # saleOrders[i].state})]_vars

\* C23: the result of execute_all_schools_operation has exactly one entry for
\* every active school; the entry of a school whose processing raised is the
\* error, and the schools after it are processed and have their entries.
C23_OneEntryPerActiveSchool ==
    execRes.op = "execute_all_schools_operation" =>
        LET active == {i \in DOMAIN consSchools : consSchools[i].is_active}
            keys == {c \in Schools : execRes.results[c] # ""}
        IN  /\ keys = {consSchools[i].code : i \in active}
            /\ Cardinality(keys) = Cardinality(active)
            /\ \A i \in active :
                   execRes.results[consSchools[i].code] =
                       IF ~execRes.found THEN "Method not found"
                       ELSE IF i \in execRes.raising THEN "Error"
                       ELSE "returned"

C23_Witness ==
    /\ execRes.op = "execute_all_schools_operation"
    /\ execRes.found
    /\ execRes.raising = {1}
    /\ Len(consSchools) = 2
    /\ \A i \in DOMAIN consSchools : consSchools[i].is_active
    /\ execRes.results[consSchools[1].code] = "Error"
    /\ execRes.results[consSchools[2].code] = "returned"

\* C24: no two stored ICU beds have the same name. create compares each name
\* of the batch with the stored beds only, so a batch that holds one new name
\* twice stores two beds of that name.
C24_NoTwoBedsShareName ==
    \A a \in beds : \A b \in beds : a.name = b.name => a.id = b.id

\* C25: no two students of one class have the same roll number other than 0.
\* The constraint runs when roll_number is written; a write of class_id alone
\* moves a student into a class where the roll number is taken.
C25_RollNumberUniqueInClass ==
    \A i \in DOMAIN schStudents : \A j \in DOMAIN schStudents :
        (/\ i # j
         /\ schStudents[i].class_id = schStudents[j].class_id
         /\ schStudents[i].roll_number = schStudents[j].roll_number)
            => schStudents[i].roll_number = 0

\* C27: when auto_promote_students has run after the end of the current year,
\* running it again leaves every student in the class the first run put them
\* in. The job keeps no mark of the promotion, so the second run promotes again.
C27_SecondRunPromotesNobody ==
    [][(/\ promoRes.op = "auto_promote_students"
        /\ promoRes.raised = ""
        /\ promoRes'.op = "auto_promote_students")
           => \A i \in DOMAIN schStudents :
                  schStudents'[i].class_id = schStudents[i].class_id]_vars

\* C26: a call of auto_register_patient with several records, each with a name
\* and a date of birth that is not in the future, creates one hmis.patient per
\* record. The loop body returns in its first pass, so one patient is created.
C26_OnePatientPerRecord ==
    [][(/\ regRes'.op = "auto_register_patient"
        /\ Len(regRes'.records) > 1
        /\ \A i \in DOMAIN regRes'.records :
               /\ Len(regRes'.records[i].name) > 0
               /\ regRes'.records[i].date_of_birth # NoDate
               /\ regRes'.records[i].date_of_birth <= today)
           => Len(regPatients') = Len(regPatients) + Len(regRes'.records)]_vars

\* C28: action_generate sets to 'invoiced' exactly the declarations that are
\* 'verified' and whose period lies within the wizard's dates, leaves every
\* other declaration as it was, and a second run with the same dates changes
\* nothing.
C28_InvoicesExactlyVerifiedInPeriod ==
    [][uafRes'.op = "action_generate" =>
          /\ DOMAIN uafDeclarations' = DOMAIN uafDeclarations
          /\ \A i \in DOMAIN uafDeclarations :
                 IF /\ uafDeclarations[i].state = "verified"
                    /\ uafDeclarations[i].period_start >= uafRes'.date_from
                    /\ uafDeclarations[i].period_end <= uafRes'.date_to
                 THEN /\ uafDeclarations'[i].state = "invoiced"
                      /\ uafDeclarations'[i].period_start = uafDeclarations[i].period_start
                      /\ uafDeclarations'[i].period_end = uafDeclarations[i].period_end
                 ELSE uafDeclarations'[i] = uafDeclarations[i]
          /\ (/\ uafRes.op = "action_generate"
              /\ uafRes.date_from = uafRes'.date_from
              /\ uafRes.date_to = uafRes'.date_to)
                 => uafDeclarations' = uafDeclarations]_vars

C28_Witness ==
    /\ uafRes.op = "action_generate"
    /\ uafRes.date_from = PatientToday
    /\ uafRes.date_to = PatientToday
    /\ Len(uafDeclarations) = 2
    /\ uafRes.written = {1}
    /\ uafDeclarations[1].state = "invoiced"
    /\ uafDeclarations[2].state = "verified"
    /\ uafDeclarations[2].period_end > uafRes.date_to

\* C29: check_hmis_access_rights returns True exactly when the matrix grants
\* the operation on the model to one of the user's groups; for a model the
\* matrix does not name it does not return True.
C29_TrueIffSomeGroupGranted ==
    accRes.op = "check_hmis_access_rights" =>
        /\ accRes.returned = "True" <=>
              /\ accRes.model_name \in {"hmis.patient", "hmis.prescription"}
              /\ \E group \in userGroups :
                     /\ group \in DOMAIN access_matrix[accRes.model_name]
                     /\ accRes.operation \in access_matrix[accRes.model_name][group]
        /\ accRes.model_name \notin {"hmis.patient", "hmis.prescription"}
              => accRes.returned # "True"

C29_Witness ==
    /\ accRes.op = "check_hmis_access_rights"
    /\ accRes.model_name = "hmis.prescription"
    /\ accRes.operation = "write"
    /\ userGroups = {"nurse", "pharmacist"}
    /\ accRes.returned = "True"

\* C30: no two stored hospital.patient records have the same contact_number
\* other than the empty one. The check is made by create only; a write of
\* contact_number is stored unchecked.
C30_ContactNumberUnique ==
    \A p \in patients : \A q \in patients :
        (p.contact_number = q.contact_number /\ p.contact_number # "")
            => p.id = q.id

====
